---- MODULE Spec2Model ----
(***************************************************************************)
(* A model of memoni's selection transfer engine (src/src/selection.rs),   *)
(* its transfer window pool (src/src/transfer_window_pool.rs) and its      *)
(* persistence layer (src/src/persistence.rs).                             *)
(*                                                                         *)
(* Conventions                                                             *)
(*  - an X11 atom is identified with its name: the server interns names    *)
(*    one-to-one, so HashMap<Atom, String> is modelled as a set of names;  *)
(*  - a TransferWindow {id, atom} is identified with its id: the pair is   *)
(*    created together by create_window and never separated;               *)
(*  - an Instant is kept as the whole number of seconds elapsed since it   *)
(*    was taken, saturating at the largest value any comparison in the     *)
(*    code distinguishes (OVERDUE_TIMEOUT for tasks, MERGE_WINDOW for the  *)
(*    previous capture);                                                   *)
(*  - byte strings are sequences of integers; the sizes INCR_CHUNK_SIZE,   *)
(*    MAX_INCR_SIZE, CHUNK_SIZE and the initial size of the window pool    *)
(*    are scaled down, their order is kept.                                *)
(***************************************************************************)
EXTENDS Integers, Sequences, FiniteSets, TLC

VARIABLES
    items,                          \* Selection.items, front first
    request_tasks,                  \* Selection.request_tasks, keyed by window id
    incr_paste_tasks,               \* Selection.incr_paste_tasks, keyed by <<window, atom>>
    windows,                        \* TransferWindowPool.windows (free queue)
    counter,                        \* TransferWindowPool.counter (windows created)
    paste_item_id,                  \* Selection.paste_item_id
    prev_item_metadata,             \* Selection.prev_item_metadata
    merge_consecutive_similar_items,\* Selection.merge_consecutive_similar_items
    status,                         \* "running", "error" (handle_event returned Err), "panic"
    peer,                           \* what the requestors of outbound transfers have read
    last,                           \* the last call: its inputs, X11 requests and result
    late,                           \* conversions of purged transfers still to be answered
    file,                           \* content at the real path
    tmp_file,                       \* content at the .tmp sibling
    channel,                        \* mpsc queue of SaveRequests
    cancel_tokens,                  \* the AtomicBool of every save submitted so far
    current_cancel_token,           \* Persistence.current_cancel_token
    writer,                         \* the writer thread: its position in write_to_disk
    submitted                       \* payloads of the saves submitted so far, in order

engine_vars == <<items, request_tasks, incr_paste_tasks, windows, counter, paste_item_id,
                 prev_item_metadata, merge_consecutive_similar_items, status, peer, last,
                 late>>
persist_vars == <<file, tmp_file, channel, cancel_tokens, current_cancel_token, writer,
                  submitted>>
vars == <<engine_vars, persist_vars>>

(***************************************************************************)
(* Bounds of the model                                                     *)
(***************************************************************************)
item_limit == 2        \* config.item_limit: configurable, 100 by default
MaxTasks == 2          \* inbound transfers in flight at once
MaxWindows == 3        \* transfer windows ever created
MaxSaves == 3          \* saves submitted in one run
MaxOffered == 4        \* names in a TARGETS reply handed to filter_mimes on its own
MaxHistorySaves == 2   \* saves of one history in SpecLoad
MaxKeys == 3           \* keys of the OrderedHashMap in SpecMap
MaxLate == 2           \* replies still to come to conversions of purged transfers

(***************************************************************************)
(* Program constants                                                       *)
(***************************************************************************)
OVERDUE_TIMEOUT == 3   \* seconds
MERGE_WINDOW == 1      \* seconds: Duration::from_secs(1) of the merge heuristic
MAX_INCR_SIZE == 3     \* scaled from 10 MiB
INCR_CHUNK_SIZE == 2   \* scaled from 1 MiB - 1
INITIAL_WINDOWS == 2   \* windows created by TransferWindowPool::new, scaled from 4
CHUNK_SIZE == 2        \* scaled from 64 KiB
BINARY_VERSION == 2

None == "None"         \* x11rb::NONE, and Option::None of a name
NoScore == -1          \* Option::<usize>::None of plaintext_mime_score
NoneOpt == <<>>        \* Option::None of a value: an Option is a sequence of length <= 1
Some(x) == <<x>>

(***************************************************************************)
(* Generic helpers                                                         *)
(***************************************************************************)
\* every order in which the elements of S can be visited (HashMap iteration)
Orders(S) ==
    {o \in [1..Cardinality(S) -> S] : \A i, j \in 1..Cardinality(S) : i # j => o[i] # o[j]}

Min(a, b) == IF a < b THEN a ELSE b

RemoveAt(s, i) == SubSeq(s, 1, i - 1) \o SubSeq(s, i + 1, Len(s))

\* the sequence of items without the one of that id
Without(its, id) == SelectSeq(its, LAMBDA it : it.id # id)

\* BTreeMap::insert
MapInsert(m, k, v) == [x \in DOMAIN m \cup {k} |-> IF x = k THEN v ELSE m[x]]

EmptyMap == <<>>

(***************************************************************************)
(* MIME names.  A name is an atomic string here, so the three string       *)
(* functions the code applies to names are tabulated over the names the    *)
(* model uses.                                                             *)
(***************************************************************************)
Sentinel == "x-kde-passwordManagerHint"

\* the excluded atoms without MULTIPLE
SpecialTargets_without_MULTIPLE ==
    {"TIMESTAMP", "TARGETS", "SAVE_TARGETS", "DELETE", "INSERT_SELECTION",
     "INSERT_PROPERTY"}

SpecialTargets ==
    {"TIMESTAMP", "TARGETS", "SAVE_TARGETS", "MULTIPLE", "DELETE", "INSERT_SELECTION",
     "INSERT_PROPERTY"}

\* str::to_ascii_lowercase, as eq_ignore_ascii_case compares
AsciiLower(mime) ==
    CASE mime = "UTF8_STRING" -> "utf8_string"
      [] mime = "TEXT" -> "text"
      [] mime = "STRING" -> "string"
      [] mime = "TEXT/PLAIN" -> "text/plain"
      [] mime = "IMAGE/PNG" -> "image/png"
      [] OTHER -> mime

\* mime.starts_with("image/"): case-sensitive
is_image_mime(mime) ==
    mime \in {"image/jpeg", "image/png", "image/gif", "image/svg+xml", "image/bmp",
              "image/webp"}

TEXT_MIMES_ORDER ==
    <<"", "text/plain;charset=us-ascii", "text/plain;charset=unicode", "text", "string",
      "text/plain", "text/plain;charset=utf-8", "utf8_string">>

IMAGE_MIMES_ORDER == <<"image/jpeg", "image/png", "image/gif", "image/svg+xml">>

\* Option<usize>: the 0-based position in the table, or None
plaintext_mime_score(mime) ==
    IF \E i \in 1..Len(TEXT_MIMES_ORDER) : TEXT_MIMES_ORDER[i] = AsciiLower(mime)
    THEN (CHOOSE i \in 1..Len(TEXT_MIMES_ORDER) : TEXT_MIMES_ORDER[i] = AsciiLower(mime)) - 1
    ELSE NoScore

is_plaintext_mime(mime) == plaintext_mime_score(mime) # NoScore

image_mime_score(mime) ==
    IF \E i \in 1..Len(IMAGE_MIMES_ORDER) : IMAGE_MIMES_ORDER[i] = AsciiLower(mime)
    THEN CHOOSE i \in 1..Len(IMAGE_MIMES_ORDER) : IMAGE_MIMES_ORDER[i] = AsciiLower(mime)
    ELSE 0

(***************************************************************************)
(* filter_mimes, over the order in which the HashMap yields its entries.   *)
(* The loop state is [filtered, plain, plain_score, image, image_score,    *)
(* returned]; the result is the returned set of names.                     *)
(***************************************************************************)
\* filter_step keeping the first plaintext and the first image name it visits
filter_step_keeps_first(st, mime) ==
    IF plaintext_mime_score(mime) # NoScore
    THEN IF st.plain = None
         THEN [st EXCEPT !.plain = mime, !.plain_score = plaintext_mime_score(mime)]
         ELSE st
    ELSE IF is_image_mime(mime)
    THEN IF st.image = None
         THEN [st EXCEPT !.image = mime, !.image_score = image_mime_score(mime)]
         ELSE st
    ELSE IF mime = Sentinel
    THEN [st EXCEPT !.filtered = {}, !.returned = TRUE]
    ELSE [st EXCEPT !.filtered = @ \cup {mime}]

\* filter_step with the password branch draining the map but not returning
filter_step_no_early_return(st, mime) ==
    IF plaintext_mime_score(mime) # NoScore
    THEN IF st.plain = None \/ plaintext_mime_score(mime) > st.plain_score
         THEN [st EXCEPT !.plain = mime, !.plain_score = plaintext_mime_score(mime)]
         ELSE st
    ELSE IF is_image_mime(mime)
    THEN IF st.image = None \/ image_mime_score(mime) > st.image_score
         THEN [st EXCEPT !.image = mime, !.image_score = image_mime_score(mime)]
         ELSE st
    ELSE IF mime = Sentinel
    THEN [st EXCEPT !.filtered = {}]
    ELSE [st EXCEPT !.filtered = @ \cup {mime}]

filter_step(st, mime) ==
    IF plaintext_mime_score(mime) # NoScore
    THEN IF st.plain = None \/ plaintext_mime_score(mime) > st.plain_score
         THEN [st EXCEPT !.plain = mime, !.plain_score = plaintext_mime_score(mime)]
         ELSE st
    ELSE IF is_image_mime(mime)
    THEN IF st.image = None \/ image_mime_score(mime) > st.image_score
         THEN [st EXCEPT !.image = mime, !.image_score = image_mime_score(mime)]
         ELSE st
    ELSE IF mime = Sentinel
    THEN [st EXCEPT !.filtered = {}, !.returned = TRUE]
    ELSE [st EXCEPT !.filtered = @ \cup {mime}]

RECURSIVE filter_loop(_, _, _)
filter_loop(order, i, st) ==
    IF st.returned
    THEN st.filtered
    ELSE IF i > Len(order)
    THEN st.filtered \cup (IF st.plain # None THEN {st.plain} ELSE {})
                     \cup (IF st.image # None THEN {st.image} ELSE {})
    ELSE filter_loop(order, i + 1, filter_step(st, order[i]))

filter_mimes(order) ==
    filter_loop(order, 1,
                [filtered |-> {}, plain |-> None, plain_score |-> 0, image |-> None,
                 image_score |-> 0, returned |-> FALSE])

(***************************************************************************)
(* hash_selection_data: the bincode encoding of the BTreeMap (entry count, *)
(* then per entry in key order the key and the length-prefixed bytes),     *)
(* hashed with a fixed seed.  The hash is a polynomial over the encoding,  *)
(* reduced modulo HASH_MODULUS (integers here are 32 bits wide, so the     *)
(* 64-bit word of the code is scaled down).                                *)
(***************************************************************************)
MimeRank(mime) ==       \* byte-wise order of the names, as BTreeMap<String, _> keeps them
    CASE mime = "UTF8_STRING" -> 1
      [] mime = "image/png" -> 2
      [] mime = "text/html" -> 3
      [] mime = "text/plain" -> 4
      [] OTHER -> 5

RECURSIVE SortedKeys(_)
SortedKeys(S) ==
    IF S = {} THEN <<>>
    ELSE LET k == CHOOSE x \in S : \A y \in S : MimeRank(x) <= MimeRank(y)
         IN <<k>> \o SortedKeys(S \ {k})

RECURSIVE EncodeEntries(_, _)
EncodeEntries(data, keys) ==
    IF keys = <<>> THEN <<>>
    ELSE <<MimeRank(keys[1]), Len(data[keys[1]])>> \o data[keys[1]]
         \o EncodeEntries(data, Tail(keys))

encode_to_vec(data) ==
    <<Cardinality(DOMAIN data)>> \o EncodeEntries(data, SortedKeys(DOMAIN data))

HASH_MODULUS == 1000003

RECURSIVE hash_one(_, _)
hash_one(bin, h) ==
    IF bin = <<>> THEN h
    ELSE hash_one(Tail(bin), (h * 31 + bin[1]) % HASH_MODULUS)

hash_selection_data(data) == hash_one(encode_to_vec(data), 1)

\* contains looking at the first window only
contains_at_start_only(haystack, needle) ==
    /\ Len(needle) <= Len(haystack)
    /\ SubSeq(haystack, 1, Len(needle)) = needle

\* haystack.windows(needle.len()).any(|w| w == needle); windows(0) panics
contains(haystack, needle) ==
    \E i \in 1..(Len(haystack) - Len(needle) + 1) :
        SubSeq(haystack, i, i + Len(needle) - 1) = needle

(***************************************************************************)
(* The engine's state as one record, so that the steps of a handler        *)
(* compose: every handler maps the current state to the set of states it   *)
(* can leave behind (HashMap iteration order and X11 failures are the      *)
(* only sources of choice).                                                *)
(***************************************************************************)
Cur ==
    [items |-> items, request_tasks |-> request_tasks,
     incr_paste_tasks |-> incr_paste_tasks, windows |-> windows, counter |-> counter,
     paste_item_id |-> paste_item_id, prev_item_metadata |-> prev_item_metadata,
     status |-> status, peer |-> peer, last |-> last, late |-> late]

Apply(s) ==
    /\ items' = s.items
    /\ request_tasks' = s.request_tasks
    /\ incr_paste_tasks' = s.incr_paste_tasks
    /\ windows' = s.windows
    /\ counter' = s.counter
    /\ paste_item_id' = s.paste_item_id
    /\ prev_item_metadata' = s.prev_item_metadata
    /\ status' = s.status
    /\ peer' = s.peer
    /\ last' = s.last
    /\ late' = s.late
    /\ UNCHANGED merge_consecutive_similar_items

\* what a call did: the operation, the conversion requests it issued (<<window,
\* target>>), the SelectionNotify replies it sent (their property), whether the TARGETS
\* atoms it was offered hold the password sentinel, the capture it finalized, the value
\* it returned, how it left handle_event ("blk": through the end of the labelled block,
\* "return", "err", "panic"), whether it ran purge_overdue_tasks, and the requests
\* by which paste acted on the X server (set_selection_owner, xtest_fake_input).
Obs(op) ==
    [op |-> op, conv |-> <<>>, replies |-> <<>>, password |-> FALSE,
     fin |-> NoneOpt, ret |-> NoneOpt, path |-> "blk", purged |-> FALSE, sent |-> <<>>]

Begin(s, op) == [s EXCEPT !.last = Obs(op)]

Err(s) == [s EXCEPT !.status = "error", !.last.path = "err"]

Panic(s) == [s EXCEPT !.status = "panic", !.last.path = "panic"]

MapRemove(m, k) == [x \in DOMAIN m \ {k} |-> m[x]]

(***************************************************************************)
(* TransferWindowPool                                                      *)
(***************************************************************************)
\* pool_get handing out the front window while leaving it in the queue
pool_get_keeps_front(s) ==
    IF s.windows # <<>>
    THEN [window |-> Head(s.windows), state |-> s]
    ELSE [window |-> s.counter + 1,
          state |-> [s EXCEPT !.counter = @ + 1]]

\* get: pop_front, or create_window when the queue is empty
pool_get(s) ==
    IF s.windows # <<>>
    THEN [window |-> Head(s.windows),
          state |-> [s EXCEPT !.windows = Tail(@)]]
    ELSE [window |-> s.counter + 1,
          state |-> [s EXCEPT !.counter = @ + 1]]

\* release: push_back
pool_release(ws, window) == Append(ws, window)

(***************************************************************************)
(* Tasks                                                                   *)
(***************************************************************************)
\* Task::new(RequestTaskState::TargetsRequest, (atom, owner))
NewRequestTask(owner) ==
    [state |-> "TargetsRequest", mimes |-> {}, data |-> EmptyMap,
     current_mime_name |-> None, buffer |-> <<>>, owner |-> owner, age |-> 0]

\* Task::set_state
set_state(task, state, mimes, data, current_mime_name, buffer) ==
    [task EXCEPT !.state = state, !.mimes = mimes, !.data = data,
                 !.current_mime_name = current_mime_name, !.buffer = buffer, !.age = 0]

\* NotOverdue keeping a task that is exactly OVERDUE_TIMEOUT old
NotOverdue_inclusive(task) == task.age <= OVERDUE_TIMEOUT

\* now.duration_since(task.last_update) < OVERDUE_TIMEOUT
NotOverdue(task) == task.age < OVERDUE_TIMEOUT

purge_overdue_tasks(s) ==
    LET request_removed == {w \in DOMAIN s.request_tasks : ~NotOverdue(s.request_tasks[w])}
        paste_removed ==
            {k \in DOMAIN s.incr_paste_tasks : ~NotOverdue(s.incr_paste_tasks[k])}
    IN {[s EXCEPT !.request_tasks = [w \in DOMAIN @ \ request_removed |-> @[w]],
                  !.incr_paste_tasks = [k \in DOMAIN @ \ paste_removed |-> @[k]],
                  !.windows = @ \o released,
                  !.last.purged = TRUE] : released \in Orders(request_removed)}

(***************************************************************************)
(* process_selection_data                                                  *)
(***************************************************************************)
\* Position never finding the item
PositionNeverFound(its, id) == 0

\* self.items.iter().position(|i| i.id == new_item_id): 1-based, 0 for None
Position(its, id) ==
    IF \E i \in 1..Len(its) : its[i].id = id
    THEN CHOOSE i \in 1..Len(its) : its[i].id = id /\ \A j \in 1..(i - 1) : its[j].id # id
    ELSE 0

Ids(its) == [i \in 1..Len(its) |-> its[i].id]

\* the condition of the merge heuristic; "panic" when contains() is given an empty needle
merge_condition(s, data, owner) ==
    IF /\ merge_consecutive_similar_items
       /\ s.prev_item_metadata # NoneOpt
       /\ s.prev_item_metadata[1].owner = owner
       /\ s.prev_item_metadata[1].age < MERGE_WINDOW
       /\ ~s.prev_item_metadata[1].is_previously_seen
       /\ Cardinality(DOMAIN data) = 1
       /\ is_plaintext_mime(CHOOSE m \in DOMAIN data : TRUE)
       /\ s.items # <<>>
       /\ Cardinality(DOMAIN s.items[1].data) = 1
       /\ (CHOOSE m \in DOMAIN data : TRUE) \in DOMAIN s.items[1].data
    THEN LET mime == CHOOSE m \in DOMAIN data : TRUE
             new_text == data[mime]
             prev_text == s.items[1].data[mime]
         IN IF prev_text = <<>> THEN "panic"
            ELSE IF contains(new_text, prev_text) THEN "merge"
            ELSE IF new_text = <<>> THEN "panic"
            ELSE IF contains(prev_text, new_text) THEN "merge"
            ELSE "keep"
    ELSE "keep"

\* finalize returning the merged item only, not the items cut off the tail
finalize_without_evicted(s, data, owner) ==
    LET new_item_id == hash_selection_data(data)
        merge == merge_condition(s, data, owner) = "merge"
        removed1 == IF merge THEN <<s.items[1]>> ELSE <<>>
        items1 == IF merge THEN Tail(s.items) ELSE s.items
        idx == Position(items1, new_item_id)
        is_previously_seen == idx # 0
        pushed == <<[id |-> new_item_id, data |-> data]>> \o items1
        items2 == IF is_previously_seen
                  THEN <<items1[idx]>> \o RemoveAt(items1, idx)
                  ELSE IF Len(pushed) > item_limit
                  THEN SubSeq(pushed, 1, item_limit)
                  ELSE pushed
        removed2 == IF ~is_previously_seen /\ Len(pushed) > item_limit
                    THEN SubSeq(pushed, item_limit + 1, Len(pushed))
                    ELSE <<>>
        new_item == IF is_previously_seen \/ items2 = <<>>
                    THEN NoneOpt
                    ELSE Some(items2[1].id)
    IN [s EXCEPT !.items = items2,
                 !.prev_item_metadata =
                     Some([owner |-> owner, age |-> 0,
                           is_previously_seen |-> is_previously_seen,
                           stored |-> new_item_id]),
                 !.last.fin = Some([id |-> new_item_id, data |-> data, merge |-> merge]),
                 !.last.ret = Some([new_item |-> new_item,
                                    removed |-> Ids(removed1)]),
                 !.last.path = "return"]

\* lines 779-829: the history update once all MIMEs of a transfer are collected
\* (prev_item_metadata.stored is not in the code's tuple: it remembers the id of the item
\* this capture put at the front, for the statements about the merge heuristic)
finalize(s, data, owner) ==
    LET new_item_id == hash_selection_data(data)
        merge == merge_condition(s, data, owner) = "merge"
        removed1 == IF merge THEN <<s.items[1]>> ELSE <<>>
        items1 == IF merge THEN Tail(s.items) ELSE s.items
        idx == Position(items1, new_item_id)
        is_previously_seen == idx # 0
        pushed == <<[id |-> new_item_id, data |-> data]>> \o items1
        items2 == IF is_previously_seen
                  THEN <<items1[idx]>> \o RemoveAt(items1, idx)
                  ELSE IF Len(pushed) > item_limit
                  THEN SubSeq(pushed, 1, item_limit)
                  ELSE pushed
        removed2 == IF ~is_previously_seen /\ Len(pushed) > item_limit
                    THEN SubSeq(pushed, item_limit + 1, Len(pushed))
                    ELSE <<>>
        new_item == IF is_previously_seen \/ items2 = <<>>
                    THEN NoneOpt
                    ELSE Some(items2[1].id)
    IN [s EXCEPT !.items = items2,
                 !.prev_item_metadata =
                     Some([owner |-> owner, age |-> 0,
                           is_previously_seen |-> is_previously_seen,
                           stored |-> new_item_id]),
                 !.last.fin = Some([id |-> new_item_id, data |-> data, merge |-> merge]),
                 !.last.ret = Some([new_item |-> new_item,
                                    removed |-> Ids(removed1 \o removed2)]),
                 !.last.path = "return"]

\* process_selection_data storing the item of a transfer that collected no data
process_selection_data_storing_empty(s, window, value, mime_name, owner, fail) ==
    IF window \notin DOMAIN s.request_tasks
    THEN {Panic(s)}
    ELSE IF s.request_tasks[window].state # "PendingSelection"
    THEN {Panic([s EXCEPT !.request_tasks = MapRemove(@, window)])}
    ELSE
    LET task == s.request_tasks[window]
        data == IF value # <<>> /\ mime_name # None
                THEN MapInsert(task.data, mime_name, value)
                ELSE task.data
        s1 == [s EXCEPT !.request_tasks[window].data = data, !.last.path = "return"]
        s2 == [s EXCEPT !.request_tasks = MapRemove(@, window),
                        !.windows = pool_release(@, window),
                        !.last.path = "return"]
    IN IF task.mimes # {}
       THEN {IF fail THEN Err(s1)
             ELSE [s1 EXCEPT !.last.conv = Append(@, <<window, next_atom>>)]
             : next_atom \in task.mimes}
       ELSE IF merge_condition(s2, data, owner) = "panic"
       THEN {Panic(s2)}
       ELSE {finalize(s2, data, owner)}

\* fail: the convert_selection request for the next MIME is rejected
process_selection_data(s, window, value, mime_name, owner, fail) ==
    IF window \notin DOMAIN s.request_tasks
    THEN {Panic(s)}
    ELSE IF s.request_tasks[window].state # "PendingSelection"
    THEN {Panic([s EXCEPT !.request_tasks = MapRemove(@, window)])}
    ELSE
    LET task == s.request_tasks[window]
        data == IF value # <<>> /\ mime_name # None
                THEN MapInsert(task.data, mime_name, value)
                ELSE task.data
        s1 == [s EXCEPT !.request_tasks[window].data = data, !.last.path = "return"]
        s2 == [s EXCEPT !.request_tasks = MapRemove(@, window),
                        !.windows = pool_release(@, window),
                        !.last.path = "return"]
    IN IF task.mimes # {}
       THEN {IF fail THEN Err(s1)
             ELSE [s1 EXCEPT !.last.conv = Append(@, <<window, next_atom>>)]
             : next_atom \in task.mimes}
       ELSE IF data = EmptyMap
       THEN {s2}
       ELSE IF merge_condition(s2, data, owner) = "panic"
       THEN {Panic(s2)}
       ELSE {finalize(s2, data, owner)}

(***************************************************************************)
(* handle_event, one operator per arm of the match.  fail = 0: every X11   *)
(* request of the call succeeds; fail = k: the k-th kind of fallible       *)
(* request on the path fails and `?` returns the error.                    *)
(***************************************************************************)
paste_window == 100    \* self.window.win_id: the id of our own window

\* ev.property == x11rb::NONE of a SelectionNotify: the conversion was refused
NoProperty == [type |-> None, value |-> <<>>, value32 |-> NoneOpt]

\* the names TARGETS replies are drawn from
OfferedNames == {"text/plain", "image/png", "text/html", "MULTIPLE", Sentinel}

\* filter_mimes over every iteration order of each HashMap of offered names, tabulated
FilterOutcomes ==
    [offered \in SUBSET OfferedNames |-> {filter_mimes(order) : order \in Orders(offered)}]

\* what filter_mimes(mimes) can return: HashMap iteration order is unspecified
filter_mimes_any_order(offered) == FilterOutcomes[offered]

\* on_xfixes_selection_notify capturing from every owner, the paste window included
on_xfixes_selection_notify_from_any_owner(s0, owner, fail) ==
    LET s == Begin(s0, "XfixesSelectionNotify") IN
    IF fail = 1 /\ s.windows = <<>>
    THEN {Err(s)}
    ELSE LET got == pool_get(s) IN
         IF fail = 2
         THEN {Err(got.state)}
         ELSE {[got.state EXCEPT
                    !.request_tasks = MapInsert(@, got.window, NewRequestTask(owner)),
                    !.last.conv = <<<<got.window, "TARGETS">>>>]}

\* Event::XfixesSelectionNotify.  fail = 1: create_window, 2: convert_selection
on_xfixes_selection_notify(s0, owner, fail) ==
    LET s == Begin(s0, "XfixesSelectionNotify") IN
    IF owner = paste_window
    THEN {s}
    ELSE IF fail = 1 /\ s.windows = <<>>
    THEN {Err(s)}
    ELSE LET got == pool_get(s) IN
         IF fail = 2
         THEN {Err(got.state)}
         ELSE {[got.state EXCEPT
                    !.request_tasks = MapInsert(@, got.window, NewRequestTask(owner)),
                    !.last.conv = <<<<got.window, "TARGETS">>>>]}

\* on_selection_notify waiting for INCR chunks whatever the target of the reply
on_selection_notify_incr_for_any_target(s0, ev, fail) ==
    LET s == Begin(s0, "SelectionNotify")
        transfer_window == ev.requestor
    IN
    IF transfer_window \notin DOMAIN s.request_tasks
    THEN {s}
    ELSE IF ev.property # NoProperty /\ fail = 1
    THEN {Err(s)}
    ELSE
    LET task == s.request_tasks[transfer_window] IN
    CASE task.state = "TargetsRequest" ->
            IF ev.property = NoProperty
            THEN {s}
            ELSE IF fail = 2
            THEN {Err(s)}
            ELSE IF ev.property.type = "INCR"
            THEN {s}
            ELSE IF ev.property.value32 = NoneOpt
            THEN {s}
            ELSE
            LET offered == ev.property.value32[1] \ SpecialTargets
                s1 == [s EXCEPT !.last.password = Sentinel \in offered]
            IN UNION {
                IF mimes = {}
                THEN {s1}
                ELSE {IF fail = 3
                      THEN Err(s1)
                      ELSE [s1 EXCEPT
                                !.request_tasks[transfer_window] =
                                    set_state(task, "PendingSelection", mimes, EmptyMap,
                                              None, <<>>),
                                !.last.conv = <<<<transfer_window, target_atom>>>>]
                      : target_atom \in mimes}
                : mimes \in filter_mimes_any_order(offered)}
      [] task.state = "PendingSelection" ->
            LET mime_name == IF ev.target \in task.mimes THEN ev.target ELSE None
                s1 == [s EXCEPT !.request_tasks[transfer_window].mimes = @ \ {ev.target}]
                property_type == ev.property.type
                property_value == ev.property.value
            IN IF ev.property # NoProperty /\ fail = 2
               THEN {Err(s1)}
               ELSE IF property_type = "INCR"
               THEN {[s1 EXCEPT !.request_tasks[transfer_window] =
                                    set_state(task, "PendingIncr", task.mimes \ {ev.target},
                                              task.data, mime_name, <<>>)]}
               ELSE process_selection_data(s1, transfer_window, property_value, mime_name,
                                           task.owner, fail = 3)
      [] task.state = "PendingIncr" ->
            {Panic(s)}

\* Event::SelectionNotify.  ev = [requestor, target, property]; property is NoProperty
\* or what get_property reads: [type, value, value32].  fail = 1: get_property, 2: a reply (property, atom name),
\* 3: convert_selection
on_selection_notify(s0, ev, fail) ==
    LET s == Begin(s0, "SelectionNotify")
        transfer_window == ev.requestor
    IN
    IF transfer_window \notin DOMAIN s.request_tasks
    THEN {s}
    ELSE IF ev.property # NoProperty /\ fail = 1
    THEN {Err(s)}
    ELSE
    LET task == s.request_tasks[transfer_window] IN
    CASE task.state = "TargetsRequest" ->
            IF ev.property = NoProperty
            THEN {s}
            ELSE IF fail = 2
            THEN {Err(s)}
            ELSE IF ev.property.type = "INCR"
            THEN {s}
            ELSE IF ev.property.value32 = NoneOpt
            THEN {s}
            ELSE
            LET offered == ev.property.value32[1] \ SpecialTargets
                s1 == [s EXCEPT !.last.password = Sentinel \in offered]
            IN UNION {
                IF mimes = {}
                THEN {s1}
                ELSE {IF fail = 3
                      THEN Err(s1)
                      ELSE [s1 EXCEPT
                                !.request_tasks[transfer_window] =
                                    set_state(task, "PendingSelection", mimes, EmptyMap,
                                              None, <<>>),
                                !.last.conv = <<<<transfer_window, target_atom>>>>]
                      : target_atom \in mimes}
                : mimes \in filter_mimes_any_order(offered)}
      [] task.state = "PendingSelection" ->
            LET mime_name == IF ev.target \in task.mimes THEN ev.target ELSE None
                s1 == [s EXCEPT !.request_tasks[transfer_window].mimes = @ \ {ev.target}]
                property_type == ev.property.type
                property_value == ev.property.value
            IN IF ev.property # NoProperty /\ fail = 2
               THEN {Err(s1)}
               ELSE IF property_type = "INCR" /\ mime_name # None
               THEN {[s1 EXCEPT !.request_tasks[transfer_window] =
                                    set_state(task, "PendingIncr", task.mimes \ {ev.target},
                                              task.data, mime_name, <<>>)]}
               ELSE process_selection_data(s1, transfer_window, property_value, mime_name,
                                           task.owner, fail = 3)
      [] task.state = "PendingIncr" ->
            {Panic(s)}

\* on_property_notify_inbound appending every chunk
on_property_notify_inbound_no_ceiling(s0, ev, fail) ==
    LET s == Begin(s0, "PropertyNotify")
        transfer_window == ev.window
    IN
    IF ev.atom = "_NET_WM_NAME"
    THEN {s}
    ELSE IF ev.state # "NewValue"
    THEN {s}
    ELSE IF transfer_window \notin DOMAIN s.request_tasks
    THEN {s}
    ELSE
    LET task == s.request_tasks[transfer_window] IN
    IF task.state # "PendingIncr"
    THEN {s}
    ELSE IF fail = 1
    THEN {Err([s EXCEPT !.request_tasks[transfer_window] =
                            [task EXCEPT !.mimes = {}, !.data = EmptyMap, !.buffer = <<>>,
                                         !.current_mime_name = ""]])}
    ELSE IF ev.value = <<>>
    THEN process_selection_data(
             [s EXCEPT !.request_tasks[transfer_window] =
                           [task EXCEPT !.state = "PendingSelection",
                                        !.current_mime_name = None, !.buffer = <<>>]],
             transfer_window, task.buffer, task.current_mime_name, task.owner, fail = 3)
    ELSE {[s EXCEPT !.request_tasks[transfer_window].buffer = @ \o ev.value]}

\* Event::PropertyNotify for a key without IncrPasteTask (lines 388-485): inbound INCR.
\* ev = [window, atom, state, value]; value is what get_property reads.
\* fail = 1: get_property, 3: convert_selection
on_property_notify_inbound(s0, ev, fail) ==
    LET s == Begin(s0, "PropertyNotify")
        transfer_window == ev.window
    IN
    IF ev.atom = "_NET_WM_NAME"
    THEN {s}
    ELSE IF ev.state # "NewValue"
    THEN {s}
    ELSE IF transfer_window \notin DOMAIN s.request_tasks
    THEN {s}
    ELSE
    LET task == s.request_tasks[transfer_window] IN
    IF task.state # "PendingIncr"
    THEN {s}
    ELSE IF fail = 1
    THEN {Err([s EXCEPT !.request_tasks[transfer_window] =
                            [task EXCEPT !.mimes = {}, !.data = EmptyMap, !.buffer = <<>>,
                                         !.current_mime_name = ""]])}
    ELSE IF ev.value = <<>>
    THEN process_selection_data(
             [s EXCEPT !.request_tasks[transfer_window] =
                           [task EXCEPT !.state = "PendingSelection",
                                        !.current_mime_name = None, !.buffer = <<>>]],
             transfer_window, task.buffer, task.current_mime_name, task.owner, fail = 3)
    ELSE IF Len(task.buffer) + Len(ev.value) > MAX_INCR_SIZE
    THEN {[s EXCEPT !.request_tasks = MapRemove(@, transfer_window)]}
    ELSE {[s EXCEPT !.request_tasks[transfer_window].buffer = @ \o ev.value]}

\* end_of_handle_event without the sweep
end_of_handle_event_without_purge(results) == results

\* lines 720-722: a call that leaves the labelled block sweeps the overdue tasks
end_of_handle_event(results) ==
    UNION {IF s.last.path = "blk" THEN purge_overdue_tasks(s) ELSE {s} : s \in results}

(***************************************************************************)
(* Outbound: serving a paste                                               *)
(***************************************************************************)
selection_atom == IF merge_consecutive_similar_items THEN "PRIMARY" ELSE "CLIPBOARD"

\* self.items.iter().find(|i| i.id == item_id)
FindItem(its, id) ==
    IF Position(its, id) = 0 THEN NoneOpt ELSE Some(its[Position(its, id)])

\* what the code writes into a requestor's property, in order, since the last
\* SelectionRequest for that <<window, property>>
PeerWrite(s, key, type, value) ==
    [s EXCEPT !.peer = MapInsert(@, key,
                                 Append(IF key \in DOMAIN @ THEN @[key] ELSE <<>>,
                                        [type |-> type, value |-> value]))]

NewIncrPasteTask(target, item_id, data_atom_name) ==
    [target |-> target, item_id |-> item_id, data_atom_name |-> data_atom_name,
     offset |-> 0, age |-> 0]

\* the reply closure of lines 494-511.  fail = 3: send_event fails
send_reply(s, property, fail) ==
    IF fail = 3 THEN Err(s) ELSE [s EXCEPT !.last.replies = Append(@, property)]

\* send_refusal naming the property in its reply
send_refusal_naming_property(s, key, fail) ==
    IF fail = 2 THEN Err(s) ELSE send_reply([s EXCEPT !.peer = MapRemove(@, key)], key[2], fail)

\* the reply closure of lines 524-529.  fail = 2: delete_property fails
send_refusal(s, key, fail) ==
    IF fail = 2 THEN Err(s) ELSE send_reply([s EXCEPT !.peer = MapRemove(@, key)], None, fail)

\* Event::SelectionRequest.  ev = [requestor, selection, target, property].
\* fail = 1: intern_atom, 2: a property request (change, delete), 3: send_event
on_selection_request(s0, ev, fail) ==
    LET s1 == Begin(s0, "SelectionRequest")
        property == IF ev.property = None THEN ev.target ELSE ev.property
        key == <<ev.requestor, property>>
        s == [s1 EXCEPT !.peer = MapRemove(@, key)]
    IN
    IF property = None
    THEN {send_reply(s, None, fail)}
    ELSE IF ev.selection # selection_atom
    THEN {send_refusal(s, key, fail)}
    ELSE IF s.paste_item_id = NoneOpt
    THEN {send_refusal(s, key, fail)}
    ELSE IF FindItem(s.items, s.paste_item_id[1]) = NoneOpt
    THEN {send_refusal(s, key, fail)}
    ELSE
    LET item_id == s.paste_item_id[1]
        item == FindItem(s.items, item_id)[1]
        supported_atoms == {"TARGETS"} \cup (DOMAIN item.data \ {None})
    IN
    IF fail = 1
    THEN {Err(s)}
    ELSE IF ev.target \notin supported_atoms
    THEN {send_refusal(s, key, fail)}
    ELSE IF ev.target = "TARGETS"
    THEN {IF fail = 2 THEN Err(s)
          ELSE send_reply(PeerWrite(s, key, "ATOM",
                                    <<"TARGETS">> \o SortedKeys(DOMAIN item.data \ {None})),
                          property, fail)}
    ELSE IF ev.target \notin DOMAIN item.data
    THEN {Panic(s)}
    ELSE
    LET data == item.data[ev.target] IN
    IF Len(data) > INCR_CHUNK_SIZE
    THEN {IF fail = 2 THEN Err(s)
          ELSE send_reply(
                   [PeerWrite(s, key, "INCR", <<Len(data)>>) EXCEPT
                        !.incr_paste_tasks =
                            MapInsert(@, key, NewIncrPasteTask(ev.target, item_id, ev.target))],
                   property, fail)}
    ELSE {IF fail = 2 THEN Err(s)
          ELSE send_reply(PeerWrite(s, key, ev.target, data), property, fail)}

\* on_property_notify_outbound writing all that is left of the payload at once
on_property_notify_outbound_whole_rest(s0, ev, fail) ==
    LET s == Begin(s0, "PropertyNotifyPaste")
        key == <<ev.window, ev.atom>>
    IN
    IF ev.state # "Delete"
    THEN {s}
    ELSE
    LET task == s.incr_paste_tasks[key]
        found == FindItem(s.items, task.item_id)
        ended == [s EXCEPT !.incr_paste_tasks = MapRemove(@, key)]
    IN
    IF found # NoneOpt /\ task.data_atom_name \in DOMAIN found[1].data
    THEN LET data == found[1].data[task.data_atom_name]
             end == Len(data)
             chunk == SubSeq(data, task.offset + 1, end)
             s1 == IF task.offset = end
                   THEN ended
                   ELSE [s EXCEPT !.incr_paste_tasks[key].offset = end]
         IN {IF fail = 2 THEN Err(s1) ELSE PeerWrite(s1, key, task.target, chunk)}
    ELSE {IF fail = 2 THEN Err(ended) ELSE PeerWrite(ended, key, task.target, <<>>)}

\* on_property_notify_outbound leaving the task of a vanished item in place
on_property_notify_outbound_keeping_task(s0, ev, fail) ==
    LET s == Begin(s0, "PropertyNotifyPaste")
        key == <<ev.window, ev.atom>>
    IN
    IF ev.state # "Delete"
    THEN {s}
    ELSE
    LET task == s.incr_paste_tasks[key]
        found == FindItem(s.items, task.item_id)
        ended == [s EXCEPT !.incr_paste_tasks = MapRemove(@, key)]
    IN
    IF found # NoneOpt /\ task.data_atom_name \in DOMAIN found[1].data
    THEN LET data == found[1].data[task.data_atom_name]
             end == Min(task.offset + INCR_CHUNK_SIZE, Len(data))
             chunk == SubSeq(data, task.offset + 1, end)
             s1 == IF task.offset = end
                   THEN ended
                   ELSE [s EXCEPT !.incr_paste_tasks[key].offset = end]
         IN {IF fail = 2 THEN Err(s1) ELSE PeerWrite(s1, key, task.target, chunk)}
    ELSE {IF fail = 2 THEN Err(s) ELSE PeerWrite(s, key, task.target, <<>>)}

\* Event::PropertyNotify for a key with an IncrPasteTask (lines 634-710).
\* fail = 2: change_property8 fails
on_property_notify_outbound(s0, ev, fail) ==
    LET s == Begin(s0, "PropertyNotifyPaste")
        key == <<ev.window, ev.atom>>
    IN
    IF ev.state # "Delete"
    THEN {s}
    ELSE
    LET task == s.incr_paste_tasks[key]
        found == FindItem(s.items, task.item_id)
        ended == [s EXCEPT !.incr_paste_tasks = MapRemove(@, key)]
    IN
    IF found # NoneOpt /\ task.data_atom_name \in DOMAIN found[1].data
    THEN LET data == found[1].data[task.data_atom_name]
             end == Min(task.offset + INCR_CHUNK_SIZE, Len(data))
             chunk == SubSeq(data, task.offset + 1, end)
             s1 == IF task.offset = end
                   THEN ended
                   ELSE [s EXCEPT !.incr_paste_tasks[key].offset = end]
         IN {IF fail = 2 THEN Err(s1) ELSE PeerWrite(s1, key, task.target, chunk)}
    ELSE {IF fail = 2 THEN Err(ended) ELSE PeerWrite(ended, key, task.target, <<>>)}

\* Event::PropertyNotify: the match tries the guarded inbound arm first
on_property_notify(s, ev, fail) ==
    IF <<ev.window, ev.atom>> \notin DOMAIN s.incr_paste_tasks
    THEN on_property_notify_inbound(s, ev, fail)
    ELSE on_property_notify_outbound(s, ev, fail)

\* paste taking the selection before it looks at the input focus
paste_owning_first(s0, item_id, focused_window, fail) ==
    LET s == [Begin(s0, "paste") EXCEPT !.last.path = "return"]
        owner == [s EXCEPT !.last.sent = <<"set_selection_owner">>]
    IN
    IF fail = 1
    THEN Err(s)
    ELSE IF focused_window = paste_window
    THEN owner
    ELSE IF fail = 2
    THEN Err(owner)
    ELSE [owner EXCEPT !.last.sent = Append(@, "xtest_fake_input"),
                       !.paste_item_id = Some(item_id)]

\* Selection::paste.  fail = 1: get_input_focus or set_selection_owner,
\* 2: a request of the input synthesis
paste(s0, item_id, focused_window, fail) ==
    LET s == [Begin(s0, "paste") EXCEPT !.last.path = "return"]
        owner == [s EXCEPT !.last.sent = <<"set_selection_owner">>]
    IN
    IF fail = 1
    THEN Err(s)
    ELSE IF focused_window = paste_window
    THEN s
    ELSE IF fail = 2
    THEN Err(owner)
    ELSE [owner EXCEPT !.last.sent = Append(@, "xtest_fake_input"),
                       !.paste_item_id = Some(item_id)]

(***************************************************************************)
(* Persistence.  A cancel token is the index of its AtomicBool in          *)
(* cancel_tokens; the k-th save creates token k.  The handlers map a       *)
(* persistence record to the set of records they can leave behind.         *)
(***************************************************************************)
PCur ==
    [file |-> file, tmp_file |-> tmp_file, channel |-> channel,
     cancel_tokens |-> cancel_tokens, current_cancel_token |-> current_cancel_token,
     writer |-> writer, submitted |-> submitted]

PApply(p) ==
    /\ file' = p.file
    /\ tmp_file' = p.tmp_file
    /\ channel' = p.channel
    /\ cancel_tokens' = p.cancel_tokens
    /\ current_cancel_token' = p.current_cancel_token
    /\ writer' = p.writer
    /\ submitted' = p.submitted

\* u32::to_le_bytes
to_le_bytes(n) ==
    <<n % 256, (n \div 256) % 256, (n \div 65536) % 256, (n \div 16777216) % 256>>

\* the bytes a completed write_to_disk leaves in the file
FileContent(serialized_data) == to_le_bytes(BINARY_VERSION) \o serialized_data

\* bincode's variable-width integer: one byte below 251, else a marker byte and the
\* little-endian bytes of the narrowest width that holds the value
varint_encode(n) ==
    IF n < 251 THEN <<n>>
    ELSE IF n < 65536 THEN <<251, n % 256, n \div 256>>
    ELSE <<252>> \o to_le_bytes(n)

\* bincode::encode_to_vec of the items (length, then per item its id and its data)
RECURSIVE SerializeEach(_)
SerializeEach(its) ==
    IF its = <<>> THEN <<>>
    ELSE varint_encode(its[1].id) \o encode_to_vec(its[1].data) \o SerializeEach(Tail(its))

serialize_items(its) == varint_encode(Len(its)) \o SerializeEach(its)

(***************************************************************************)
(* The keyed history.  OrderedHashMap holds a HashMap from id to item and  *)
(* the sequence of the keys; SelectionMetadata is the small record saved   *)
(* next to it, of which the model keeps the pin count.                     *)
(***************************************************************************)
OrderedHashMap_new == [map |-> EmptyMap, keys |-> <<>>]

SelectionMetadata_default == [pinned_count |-> 0]

\* remove_in_keys leaving the keys as they are
remove_in_keys_never(h, key) == h.keys

\* OrderedHashMap::remove_in_keys
remove_in_keys(h, key) ==
    IF key \in DOMAIN h.map /\ \E i \in 1..Len(h.keys) : h.keys[i] = key
    THEN RemoveAt(h.keys, CHOOSE i \in 1..Len(h.keys) :
                              /\ h.keys[i] = key
                              /\ \A j \in 1..(i - 1) : h.keys[j] # key)
    ELSE h.keys

\* OrderedHashMap::push_front
push_front(h, key, value) ==
    [map |-> MapInsert(h.map, key, value), keys |-> <<key>> \o remove_in_keys(h, key)]

\* OrderedHashMap::insert; VecDeque::insert panics when index is beyond the keys that
\* remove_in_keys left, before the map is touched
insert(h, index, key, value) ==
    LET keys == remove_in_keys(h, key)
    IN IF index > Len(keys)
       THEN [panic |-> TRUE, h |-> [h EXCEPT !.keys = keys]]
       ELSE [panic |-> FALSE,
             h |-> [map |-> MapInsert(h.map, key, value),
                    keys |-> SubSeq(keys, 1, index) \o <<key>>
                             \o SubSeq(keys, index + 1, Len(keys))]]

\* OrderedHashMap::pop_front
pop_front(h) ==
    IF h.keys = <<>> THEN h ELSE [map |-> MapRemove(h.map, Head(h.keys)), keys |-> Tail(h.keys)]

\* OrderedHashMap::pop_back
pop_back(h) ==
    IF h.keys = <<>> THEN h
    ELSE [map |-> MapRemove(h.map, h.keys[Len(h.keys)]),
          keys |-> SubSeq(h.keys, 1, Len(h.keys) - 1)]

\* OrderedHashMap::remove
remove(h, key) ==
    IF key \in DOMAIN h.map
    THEN [map |-> MapRemove(h.map, key),
          keys |-> IF \E i \in 1..Len(h.keys) : h.keys[i] = key
                   THEN RemoveAt(h.keys, CHOOSE i \in 1..Len(h.keys) :
                                             /\ h.keys[i] = key
                                             /\ \A j \in 1..(i - 1) : h.keys[j] # key)
                   ELSE h.keys]
    ELSE h

\* OrderedHashMap::clear
clear(h) == OrderedHashMap_new

\* OrderedHashMap::len
len(h) == Cardinality(DOMAIN h.map)

\* OrderedHashMap::push_back
push_back(h, key, value) ==
    [map |-> MapInsert(h.map, key, value), keys |-> Append(remove_in_keys(h, key), key)]

\* the derived Encode of the HashMap, its entries in the order the map yields them
RECURSIVE EncodeMapEntries(_, _)
EncodeMapEntries(map, order) ==
    IF order = <<>> THEN <<>>
    ELSE varint_encode(order[1]) \o varint_encode(map[order[1]].id)
         \o encode_to_vec(map[order[1]].data) \o EncodeMapEntries(map, Tail(order))

\* the derived Encode of the VecDeque of keys
RECURSIVE EncodeKeys(_)
EncodeKeys(keys) ==
    IF keys = <<>> THEN <<>> ELSE varint_encode(keys[1]) \o EncodeKeys(Tail(keys))

\* bincode::encode_to_vec((items, metadata)), one encoding per iteration order of the map
encode_items_metadata(h, metadata, order) ==
    varint_encode(Len(order)) \o EncodeMapEntries(h.map, order)
    \o varint_encode(Len(h.keys)) \o EncodeKeys(h.keys)
    \o varint_encode(metadata.pinned_count)

(***************************************************************************)
(* Decoding.  A reader takes the bytes left and gives [ok, value, rest];   *)
(* it fails when the bytes run out or do not form a value.                 *)
(***************************************************************************)
Fail == [ok |-> FALSE, value |-> 0, rest |-> <<>>]

Read(value, rest) == [ok |-> TRUE, value |-> value, rest |-> rest]

Drop(b, n) == SubSeq(b, n + 1, Len(b))

\* u32::from_le_bytes
from_le_bytes(b) == b[1] + 256 * b[2] + 65536 * b[3] + 16777216 * b[4]

\* the varint reader (the markers of 64 and 128 bit values are beyond the ids here)
varint_decode(b) ==
    IF b = <<>> THEN Fail
    ELSE IF b[1] < 251 THEN Read(b[1], Tail(b))
    ELSE IF b[1] = 251
    THEN IF Len(b) < 3 THEN Fail ELSE Read(b[2] + 256 * b[3], Drop(b, 3))
    ELSE IF b[1] = 252
    THEN IF Len(b) < 5 THEN Fail ELSE Read(from_le_bytes(Drop(b, 1)), Drop(b, 5))
    ELSE Fail

\* the name a key byte stands for (the inverse of MimeRank)
MimeNames == {"UTF8_STRING", "image/png", "text/html", "text/plain", "other"}

\* Decode of one (String, Vec<u8>) entry of a SelectionData
decode_entry(b) ==
    IF Len(b) < 2 \/ ~ \E m \in MimeNames : MimeRank(m) = b[1] THEN Fail
    ELSE IF Len(b) < 2 + b[2] THEN Fail
    ELSE Read(<<CHOOSE m \in MimeNames : MimeRank(m) = b[1], SubSeq(b, 3, 2 + b[2])>>,
              Drop(b, 2 + b[2]))

\* Decode of the BTreeMap: n entries, a repeated key keeping the later value
RECURSIVE decode_entries(_, _, _)
decode_entries(b, n, data) ==
    IF n = 0 THEN Read(data, b)
    ELSE LET e == decode_entry(b)
         IN IF ~e.ok THEN Fail
            ELSE decode_entries(e.rest, n - 1, MapInsert(data, e.value[1], e.value[2]))

decode_data(b) ==
    IF b = <<>> THEN Fail ELSE decode_entries(Tail(b), b[1], EmptyMap)

\* the derived Decode of SelectionItem
decode_item(b) ==
    LET id == varint_decode(b)
    IN IF ~id.ok THEN Fail
       ELSE LET data == decode_data(id.rest)
            IN IF ~data.ok THEN Fail
               ELSE Read([id |-> id.value, data |-> data.value], data.rest)

\* Decode of VecDeque<SelectionItem>
RECURSIVE decode_items(_, _, _)
decode_items(b, n, its) ==
    IF n = 0 THEN Read(its, b)
    ELSE LET it == decode_item(b)
         IN IF ~it.ok THEN Fail ELSE decode_items(it.rest, n - 1, Append(its, it.value))

\* Decode of HashMap<u64, SelectionItem>
RECURSIVE decode_map(_, _, _)
decode_map(b, n, map) ==
    IF n = 0 THEN Read(map, b)
    ELSE LET key == varint_decode(b)
         IN IF ~key.ok THEN Fail
            ELSE LET it == decode_item(key.rest)
                 IN IF ~it.ok THEN Fail
                    ELSE decode_map(it.rest, n - 1, MapInsert(map, key.value, it.value))

\* decode_keys building the sequence back to front
RECURSIVE decode_keys_reversed(_, _, _)
decode_keys_reversed(b, n, keys) ==
    IF n = 0 THEN Read(keys, b)
    ELSE LET key == varint_decode(b)
         IN IF ~key.ok THEN Fail
            ELSE decode_keys_reversed(key.rest, n - 1, <<key.value>> \o keys)

\* Decode of VecDeque<u64>
RECURSIVE decode_keys(_, _, _)
decode_keys(b, n, keys) ==
    IF n = 0 THEN Read(keys, b)
    ELSE LET key == varint_decode(b)
         IN IF ~key.ok THEN Fail ELSE decode_keys(key.rest, n - 1, Append(keys, key.value))

\* bincode::decode_from_slice into (OrderedHashMap, SelectionMetadata)
decode_from_slice(data) ==
    LET n == varint_decode(data)
    IN IF ~n.ok THEN Fail
       ELSE LET map == decode_map(n.rest, n.value, EmptyMap)
            IN IF ~map.ok THEN Fail
               ELSE LET k == varint_decode(map.rest)
                    IN IF ~k.ok THEN Fail
                       ELSE LET keys == decode_keys(k.rest, k.value, <<>>)
                            IN IF ~keys.ok THEN Fail
                               ELSE LET pinned == varint_decode(keys.rest)
                                    IN IF ~pinned.ok THEN Fail
                                       ELSE Read(<<[map |-> map.value, keys |-> keys.value],
                                                   [pinned_count |-> pinned.value]>>,
                                                 pinned.rest)

\* OrderedHashMap::split_off: <<what self keeps, other>>, the keys from at on moved
\* one by one with the values the map still holds for them
RECURSIVE split_off_loop(_, _, _)
split_off_loop(map, other, split_keys) ==
    IF split_keys = <<>> THEN <<map, other>>
    ELSE IF split_keys[1] \in DOMAIN map
    THEN split_off_loop(MapRemove(map, split_keys[1]),
                        push_back(other, split_keys[1], map[split_keys[1]]),
                        Tail(split_keys))
    ELSE split_off_loop(map, other, Tail(split_keys))

split_off(h, at) ==
    LET moved == split_off_loop(h.map, OrderedHashMap_new,
                                SubSeq(h.keys, at + 1, Len(h.keys)))
    IN <<[map |-> moved[1], keys |-> SubSeq(h.keys, 1, at)], moved[2]>>

RECURSIVE PushBackAll(_, _)
PushBackAll(h, its) ==
    IF its = <<>> THEN h
    ELSE PushBackAll(push_back(h, its[1].id, its[1]), Tail(its))

\* decode_version_1: the items as a plain sequence, pushed back one by one
decode_version_1(data) ==
    LET n == varint_decode(data)
    IN IF ~n.ok THEN Fail
       ELSE LET old_items == decode_items(n.rest, n.value, <<>>)
            IN IF ~old_items.ok THEN Fail
               ELSE Read(<<PushBackAll(OrderedHashMap_new, old_items.value),
                           SelectionMetadata_default>>, <<>>)

\* load_selection_data trying the version 1 format before the versioned one
load_selection_data_legacy_first(f) ==
    IF f = NoneOpt THEN Some(<<OrderedHashMap_new, SelectionMetadata_default>>)
    ELSE IF Len(f[1]) < 4 THEN NoneOpt
    ELSE LET version_buf == SubSeq(f[1], 1, 4)
             data == Drop(f[1], 4)
             old == decode_version_1(version_buf \o data)
         IN IF old.ok THEN Some(old.value)
            ELSE LET decoded == IF version_buf = to_le_bytes(BINARY_VERSION)
                                THEN decode_from_slice(data)
                                ELSE Fail
                 IN IF decoded.ok THEN Some(decoded.value) ELSE NoneOpt

\* load_selection_data: Some(pair) for Ok, NoneOpt for Err
load_selection_data(f) ==
    IF f = NoneOpt THEN Some(<<OrderedHashMap_new, SelectionMetadata_default>>)
    ELSE IF Len(f[1]) < 4 THEN NoneOpt                      \* read_exact fails
    ELSE LET version_buf == SubSeq(f[1], 1, 4)
             data == Drop(f[1], 4)
             \* u32::from_le_bytes(version_buf) = 2, compared byte by byte
             decoded == IF version_buf = to_le_bytes(BINARY_VERSION)
                        THEN decode_from_slice(data)
                        ELSE Fail
         IN IF decoded.ok THEN Some(decoded.value)
            ELSE LET old == decode_version_1(version_buf \o data)
                 IN IF old.ok THEN Some(old.value) ELSE NoneOpt

\* save_selection_data over a channel holding one request at most
save_selection_data_single_slot(p, serialized_data) ==
    LET cancelled ==
            IF p.current_cancel_token = NoneOpt
            THEN p.cancel_tokens
            ELSE [p.cancel_tokens EXCEPT ![p.current_cancel_token[1]] = TRUE]
        token == Len(p.cancel_tokens) + 1
    IN [p EXCEPT
           !.cancel_tokens = Append(cancelled, FALSE),
           !.current_cancel_token = Some(token),
           !.channel = <<[serialized_data |-> serialized_data, cancel_token |-> token]>>,
           !.submitted = Append(@, [serialized_data |-> serialized_data,
                                    outcome |-> "pending"])]

\* save_selection_data whose new token is created already set
save_selection_data_born_cancelled(p, serialized_data) ==
    LET cancelled ==
            IF p.current_cancel_token = NoneOpt
            THEN p.cancel_tokens
            ELSE [p.cancel_tokens EXCEPT ![p.current_cancel_token[1]] = TRUE]
        token == Len(p.cancel_tokens) + 1
    IN [p EXCEPT
           !.cancel_tokens = Append(cancelled, TRUE),
           !.current_cancel_token = Some(token),
           !.channel = Append(@, [serialized_data |-> serialized_data,
                                  cancel_token |-> token]),
           !.submitted = Append(@, [serialized_data |-> serialized_data,
                                    outcome |-> "pending"])]

\* Persistence::save_selection_data
save_selection_data(p, serialized_data) ==
    LET cancelled ==
            IF p.current_cancel_token = NoneOpt
            THEN p.cancel_tokens
            ELSE [p.cancel_tokens EXCEPT ![p.current_cancel_token[1]] = TRUE]
        token == Len(p.cancel_tokens) + 1
    IN [p EXCEPT
           !.cancel_tokens = Append(cancelled, FALSE),
           !.current_cancel_token = Some(token),
           !.channel = Append(@, [serialized_data |-> serialized_data,
                                  cancel_token |-> token]),
           !.submitted = Append(@, [serialized_data |-> serialized_data,
                                    outcome |-> "pending"])]

IdleWriter == [pc |-> "recv", serialized_data |-> <<>>, cancel_token |-> 0, i |-> 0]

\* a receiver that hands out the newest request waiting in the channel
recv_newest_first(p) ==
    LET n == Len(p.channel)
    IN [p EXCEPT !.channel = SubSeq(@, 1, n - 1),
                 !.writer = [pc |-> "create", serialized_data |-> p.channel[n].serialized_data,
                             cancel_token |-> p.channel[n].cancel_token, i |-> 0]]

\* receiver.recv() hands the oldest request to write_to_disk
recv(p) ==
    [p EXCEPT !.channel = Tail(@),
              !.writer = [pc |-> "create", serialized_data |-> Head(p.channel).serialized_data,
                          cancel_token |-> Head(p.channel).cancel_token, i |-> 0]]

\* cancel_token.load(Ordering::Relaxed): a relaxed load may still yield the value
\* from before a store that nothing orders it after
load(p) == IF p.cancel_tokens[p.writer.cancel_token] THEN {TRUE, FALSE} ELSE {FALSE}

\* write_to_disk returns; outcome is "cancelled", "failed" (an Err, logged) or "written"
return(p, outcome) ==
    [p EXCEPT !.writer = IdleWriter, !.submitted[p.writer.cancel_token].outcome = outcome]

\* what a write_all that fails can have written of bytes
Prefixes(bytes) == {SubSeq(bytes, 1, n) : n \in 0..Len(bytes)}

NextChunkPc(p, i) == IF i * CHUNK_SIZE < Len(p.writer.serialized_data) THEN "chunk" ELSE "sync"

\* lines 154-158: the first cancel check and File::create(temp_file_path)
create(p, fail) ==
    {IF cancelled THEN return(p, "cancelled")
     ELSE IF fail THEN return(p, "failed")
     ELSE [p EXCEPT !.tmp_file = Some(<<>>), !.writer.pc = "header"]
     : cancelled \in load(p)}

\* line 159: f.write_all(&BINARY_VERSION.to_le_bytes())
write_header(p, fail) ==
    IF fail
    THEN {return([p EXCEPT !.tmp_file = Some(@[1] \o part)], "failed")
          : part \in Prefixes(to_le_bytes(BINARY_VERSION)) \ {to_le_bytes(BINARY_VERSION)}}
    ELSE {[p EXCEPT !.tmp_file = Some(@[1] \o to_le_bytes(BINARY_VERSION)),
                    !.writer.pc = NextChunkPc(p, 0)]}

\* write_chunk that moves the temp file over the real path when it is cancelled
write_chunk_publishing_on_cancel(p, fail) ==
    LET data == p.writer.serialized_data
        i == p.writer.i
        chunk == SubSeq(data, i * CHUNK_SIZE + 1, Min((i + 1) * CHUNK_SIZE, Len(data)))
    IN UNION {
        IF cancelled THEN {return([p EXCEPT !.file = p.tmp_file, !.tmp_file = NoneOpt],
                                  "cancelled")}
        ELSE IF fail
        THEN {return([p EXCEPT !.tmp_file = Some(@[1] \o part)], "failed")
              : part \in Prefixes(chunk) \ {chunk}}
        ELSE {[p EXCEPT !.tmp_file = Some(@[1] \o chunk),
                        !.writer.i = i + 1,
                        !.writer.pc = NextChunkPc(p, i + 1)]}
        : cancelled \in load(p)}

\* lines 161-167: one round of the loop over serialized_data.chunks(CHUNK_SIZE)
write_chunk(p, fail) ==
    LET data == p.writer.serialized_data
        i == p.writer.i
        chunk == SubSeq(data, i * CHUNK_SIZE + 1, Min((i + 1) * CHUNK_SIZE, Len(data)))
    IN UNION {
        IF cancelled THEN {return(p, "cancelled")}
        ELSE IF fail
        THEN {return([p EXCEPT !.tmp_file = Some(@[1] \o part)], "failed")
              : part \in Prefixes(chunk) \ {chunk}}
        ELSE {[p EXCEPT !.tmp_file = Some(@[1] \o chunk),
                        !.writer.i = i + 1,
                        !.writer.pc = NextChunkPc(p, i + 1)]}
        : cancelled \in load(p)}

\* lines 169-173: the cancel check and f.sync_all()
sync_all(p, fail) ==
    {IF cancelled THEN return(p, "cancelled")
     ELSE IF fail THEN return(p, "failed")
     ELSE [p EXCEPT !.writer.pc = "rename"]
     : cancelled \in load(p)}

\* lines 175-182: the cancel check and fs::rename(temp_file_path, file_path)
rename(p, fail) ==
    {IF cancelled THEN return(p, "cancelled")
     ELSE IF fail THEN return(p, "failed")
     ELSE return([p EXCEPT !.file = p.tmp_file, !.tmp_file = NoneOpt], "written")
     : cancelled \in load(p)}

(***************************************************************************)
(* The actions.  env names the inputs the environment draws from: owners,  *)
(* the atom sets of TARGETS replies (offers), the targets named by         *)
(* replies, the property values, and which X11 requests may fail.          *)
(***************************************************************************)
ExistingWindows == 1..counter

\* the properties a SelectionNotify can point at
Properties(env) ==
    {NoProperty}
    \cup {[type |-> "ATOM", value |-> IF o = {} THEN <<>> ELSE <<1>>, value32 |-> Some(o)]
          : o \in env.offers}
    \cup {[type |-> "INCR", value |-> <<1>>, value32 |-> Some({})] : x \in env.incr}
    \cup {[type |-> "UTF8_STRING", value |-> v, value32 |-> NoneOpt] : v \in env.values}

XfixesSelectionNotify(env) ==
    /\ status = "running"
    /\ \E owner \in env.owners, fail \in env.fails :
          /\ owner # paste_window =>
                /\ Cardinality(DOMAIN request_tasks) < env.max_tasks
                /\ windows # <<>> \/ counter < MaxWindows
          /\ \E s \in end_of_handle_event(on_xfixes_selection_notify(Cur, owner, fail)) :
                Apply(s)

SelectionNotify(env) ==
    /\ status = "running"
    /\ \E requestor \in ExistingWindows, target \in env.targets,
          property \in Properties(env), fail \in env.fails :
          \E s \in end_of_handle_event(
                       on_selection_notify(
                           Cur,
                           [requestor |-> requestor, target |-> target,
                            property |-> property],
                           fail)) :
              Apply(s)

PropertyNotify(env) ==
    /\ status = "running"
    /\ \E ev \in env.property_events, fail \in env.fails :
          \E s \in end_of_handle_event(on_property_notify(Cur, ev, fail)) :
              Apply(s)

\* one second passes
OlderTask(task) == [task EXCEPT !.age = Min(@ + 1, OVERDUE_TIMEOUT)]

Tick ==
    /\ status = "running"
    /\ request_tasks' = [w \in DOMAIN request_tasks |-> OlderTask(request_tasks[w])]
    /\ incr_paste_tasks' = [k \in DOMAIN incr_paste_tasks |-> OlderTask(incr_paste_tasks[k])]
    /\ prev_item_metadata' =
          IF prev_item_metadata = NoneOpt
          THEN NoneOpt
          ELSE Some([prev_item_metadata[1] EXCEPT !.age = Min(@ + 1, MERGE_WINDOW)])
    /\ last' = Obs("Tick")
    /\ UNCHANGED <<items, windows, counter, paste_item_id, merge_consecutive_similar_items,
                   status, peer, late>>

\* the user's paste of an item of the history (main.rs: paste_item_id = Some(active_id),
\* then selection.paste(id, ...)?)
Paste(env) ==
    /\ status = "running"
    /\ \E item_id \in {items[i].id : i \in 1..Len(items)}, focused_window \in env.focused, fail \in env.paste_fails :
          Apply(paste(Cur, item_id, focused_window, fail))

\* KeyAction::Remove on the active item: the item leaves the history and the history
\* is saved
RemoveItem ==
    /\ status = "running"
    /\ Len(submitted) < MaxSaves
    /\ \E active_id \in {items[i].id : i \in 1..Len(items)} :
          /\ items' = Without(items, active_id)
          /\ last' = Obs("Remove")
          /\ PApply(save_selection_data(PCur, serialize_items(Without(items, active_id))))
    /\ UNCHANGED <<request_tasks, incr_paste_tasks, windows, counter, paste_item_id,
                   prev_item_metadata, merge_consecutive_similar_items, status, peer, late>>

SelectionRequest(env) ==
    /\ status = "running"
    /\ \E ev \in env.requests, fail \in env.fails :
          \E s \in end_of_handle_event(on_selection_request(Cur, ev, fail)) :
              Apply(s)

\* the main loop saves the history after a handle_event that returned a capture:
\* persistence.save_selection_data(...), with the serialized history as input
Save(env) ==
    /\ Len(submitted) < MaxSaves
    /\ \E serialized_data \in env.payloads :
          PApply(save_selection_data(PCur, serialized_data))

\* the writer thread, one step per file system request of write_to_disk
WriterRecv ==
    /\ writer.pc = "recv"
    /\ channel # <<>>
    /\ PApply(recv(PCur))

WriterCreate(env) ==
    /\ writer.pc = "create"
    /\ \E fail \in env.io_fails : \E p \in create(PCur, fail) : PApply(p)

WriterHeader(env) ==
    /\ writer.pc = "header"
    /\ \E fail \in env.io_fails : \E p \in write_header(PCur, fail) : PApply(p)

WriterChunk(env) ==
    /\ writer.pc = "chunk"
    /\ \E fail \in env.io_fails : \E p \in write_chunk(PCur, fail) : PApply(p)

WriterSync(env) ==
    /\ writer.pc = "sync"
    /\ \E fail \in env.io_fails : \E p \in sync_all(PCur, fail) : PApply(p)

WriterRename(env) ==
    /\ writer.pc = "rename"
    /\ \E fail \in env.io_fails : \E p \in rename(PCur, fail) : PApply(p)

(***************************************************************************)
(* Initial states                                                          *)
(***************************************************************************)
MkItem(data) == [id |-> hash_selection_data(data), data |-> data]

TextItem(text) == MkItem([m \in {"text/plain"} |-> text])

\* histories of at most n distinct items drawn from its
Histories(its, n) ==
    {h \in UNION {[1..k -> its] : k \in 0..n} : \A i, j \in DOMAIN h : i # j => h[i] # h[j]}

\* Persistence::new: no save submitted, the writer thread waiting in recv
PersistInit(files) ==
    /\ file \in files
    /\ tmp_file = NoneOpt
    /\ channel = <<>>
    /\ cancel_tokens = <<>>
    /\ current_cancel_token = NoneOpt
    /\ writer = IdleWriter
    /\ submitted = <<>>

PersistIdle == PersistInit({NoneOpt})

\* Selection::new over a loaded history; TransferWindowPool::new fills the pool
EngineInit(histories, modes) ==
    /\ items \in histories
    /\ request_tasks = <<>>
    /\ incr_paste_tasks = <<>>
    /\ windows = [i \in 1..INITIAL_WINDOWS |-> i]
    /\ counter = INITIAL_WINDOWS
    /\ paste_item_id = NoneOpt
    /\ prev_item_metadata = NoneOpt
    /\ merge_consecutive_similar_items \in modes
    /\ status = "running"
    /\ peer = <<>>
    /\ late = {}
    /\ last = Obs("new")

(***************************************************************************)
(* Spec: captures of plain text, one transfer at a time, over a history    *)
(* loaded from disk (which an earlier run may have saved under a larger    *)
(* item_limit)                                                             *)
(***************************************************************************)
HistoryEnv ==
    [owners |-> {paste_window, 101},
     offers |-> {{"text/plain", "TIMESTAMP", "TARGETS", "SAVE_TARGETS", "MULTIPLE", "DELETE",
                  "INSERT_SELECTION", "INSERT_PROPERTY"},
                 {"text/plain", Sentinel}},
     targets |-> {"text/plain"},
     incr |-> {},
     values |-> {<<>>, <<1>>, <<1, 2>>, <<2>>},
     property_events |-> {},
     fails |-> {0, 3},
     max_tasks |-> 1]

Init ==
    /\ EngineInit(Histories({TextItem(<<1>>), TextItem(<<1, 2>>), TextItem(<<2>>),
                             TextItem(<<2, 1>>)},
                            item_limit + 1),
                  BOOLEAN)
    /\ PersistIdle

Next ==
    \/ XfixesSelectionNotify(HistoryEnv) /\ UNCHANGED persist_vars
    \/ SelectionNotify(HistoryEnv) /\ UNCHANGED persist_vars
    \/ Tick /\ UNCHANGED persist_vars

Spec == Init /\ [][Next]_vars

(***************************************************************************)
(* SpecPool: concurrent inbound transfers, INCR included, over payloads    *)
(* that differ in length only                                              *)
(***************************************************************************)
PoolEnv ==
    [owners |-> {paste_window, 101},
     offers |-> {{}, {"text/plain", "MULTIPLE"}, {"text/plain", Sentinel}},
     targets |-> {"text/plain"},
     incr |-> {1},
     values |-> {<<>>, <<1>>},
     property_events |->
         {[window |-> w, atom |-> "TRANSFER_SELECTION_DATA", state |-> "NewValue",
           value |-> v] : w \in 1..MaxWindows, v \in {<<>>, <<1, 1>>}},
     fails |-> {0},
     max_tasks |-> MaxTasks]

InitPool ==
    /\ EngineInit({<<>>}, {FALSE})
    /\ PersistIdle

NextPool ==
    \/ XfixesSelectionNotify(PoolEnv) /\ UNCHANGED persist_vars
    \/ SelectionNotify(PoolEnv) /\ UNCHANGED persist_vars
    \/ PropertyNotify(PoolEnv) /\ UNCHANGED persist_vars
    \/ Tick /\ UNCHANGED persist_vars

SpecPool == InitPool /\ [][NextPool]_vars

(***************************************************************************)
(* SpecTargets: one transfer at a time over an empty history.  The owners  *)
(* offer any subset of OfferedNames and answer the conversions to          *)
(* text/plain only; a transfer that waits for another MIME ends by purge.  *)
(***************************************************************************)
TargetsEnv ==
    [owners |-> {paste_window, 101},
     offers |-> SUBSET OfferedNames,
     targets |-> {"text/plain"},
     incr |-> {},
     values |-> {<<1>>},
     property_events |-> {},
     fails |-> {0},
     max_tasks |-> 1]

InitTargets ==
    /\ EngineInit({<<>>}, {FALSE})
    /\ PersistIdle

NextTargets ==
    \/ XfixesSelectionNotify(TargetsEnv) /\ UNCHANGED persist_vars
    \/ SelectionNotify(TargetsEnv) /\ UNCHANGED persist_vars
    \/ Tick /\ UNCHANGED persist_vars

SpecTargets == InitTargets /\ [][NextTargets]_vars

(***************************************************************************)
(* SpecServe: serving pastes of a loaded history to one requestor, with    *)
(* X11 requests that may fail, while the user pastes and removes items.    *)
(***************************************************************************)
ServeEnv ==
    [requests |-> {[requestor |-> 200, selection |-> sel, target |-> t, property |-> "P"]
                   : sel \in {"CLIPBOARD", "PRIMARY"},
                     t \in {"TARGETS", "text/plain", "text/html"}}
                  \cup {[requestor |-> 200, selection |-> "CLIPBOARD", target |-> None,
                         property |-> None]},
     property_events |-> {[window |-> 200, atom |-> "P", state |-> st, value |-> <<>>]
                          : st \in {"Delete", "NewValue"}},
     focused |-> {paste_window, 300},
     paste_fails |-> {0, 1, 2},
     fails |-> {0, 1, 2}]

InitServe ==
    /\ EngineInit({<<TextItem(<<1, 2, 1>>), TextItem(<<2, 1, 2, 1>>), TextItem(<<1>>)>>},
                  {FALSE})
    /\ PersistIdle

NextServe ==
    \/ Paste(ServeEnv) /\ UNCHANGED persist_vars
    \/ RemoveItem
    \/ SelectionRequest(ServeEnv) /\ UNCHANGED persist_vars
    \/ PropertyNotify(ServeEnv) /\ UNCHANGED persist_vars
    \/ Tick /\ UNCHANGED persist_vars

SpecServe == InitServe /\ [][NextServe]_vars

(***************************************************************************)
(* SpecPersist: saves submitted while the writer thread works, with file   *)
(* system requests that may fail.  SpecPersistFair: the same without I/O   *)
(* errors, the writer thread scheduled fairly.                             *)
(***************************************************************************)
Payloads == {<<>>, <<5>>, <<5, 6, 7>>}

\* what an earlier run left at the real path
PreExisting == Some(FileContent(<<9>>))

PersistEnv == [payloads |-> Payloads, io_fails |-> BOOLEAN]

NoErrorEnv == [payloads |-> Payloads, io_fails |-> {FALSE}]

InitPersist ==
    /\ EngineInit({<<>>}, {FALSE})
    /\ PersistInit({NoneOpt, PreExisting})

WriterStep(env) ==
    \/ WriterRecv
    \/ WriterCreate(env)
    \/ WriterHeader(env)
    \/ WriterChunk(env)
    \/ WriterSync(env)
    \/ WriterRename(env)

NextPersist ==
    \/ Save(PersistEnv) /\ UNCHANGED engine_vars
    \/ WriterStep(PersistEnv) /\ UNCHANGED engine_vars

SpecPersist == InitPersist /\ [][NextPersist]_vars

NextPersistFair ==
    \/ Save(NoErrorEnv) /\ UNCHANGED engine_vars
    \/ WriterStep(NoErrorEnv) /\ UNCHANGED engine_vars

SpecPersistFair ==
    /\ InitPersist
    /\ [][NextPersistFair]_vars
    /\ WF_vars(WriterStep(NoErrorEnv) /\ UNCHANGED engine_vars)

(***************************************************************************)
(* SpecFilter: filter_mimes on its own.  The initial state holds the       *)
(* HashMap handed to it, as the sequence in which the map yields its       *)
(* entries; the one action applies the function.                           *)
(***************************************************************************)
FilterNames ==
    {"text/plain", "text/plain;charset=utf-8", "UTF8_STRING", "TEXT", "image/png",
     "image/jpeg", "image/bmp", "image/webp", "IMAGE/PNG", "text/html", Sentinel}

\* the iteration orders of the maps of at most n of the names
OfferOrders(names, n) ==
    {o \in UNION {[1..k -> names] : k \in 0..n} : \A i, j \in DOMAIN o : i # j => o[i] # o[j]}

InitFilter ==
    /\ items = <<>>
    /\ request_tasks = <<>>
    /\ incr_paste_tasks = <<>>
    /\ windows = [i \in 1..INITIAL_WINDOWS |-> i]
    /\ counter = INITIAL_WINDOWS
    /\ paste_item_id = NoneOpt
    /\ prev_item_metadata = NoneOpt
    /\ merge_consecutive_similar_items = FALSE
    /\ status = "running"
    /\ peer = <<>>
    /\ late = {}
    /\ last \in {[op |-> "mimes", mimes |-> o, filtered |-> NoneOpt]
                 : o \in OfferOrders(FilterNames, MaxOffered)}
    /\ PersistIdle

FilterMimes ==
    /\ last.op = "mimes"
    /\ last' = [op |-> "filter_mimes", mimes |-> last.mimes,
                filtered |-> Some(filter_mimes(last.mimes))]
    /\ UNCHANGED <<items, request_tasks, incr_paste_tasks, windows, counter, paste_item_id,
                   prev_item_metadata, merge_consecutive_similar_items, status, peer, late>>

NextFilter == FilterMimes /\ UNCHANGED persist_vars

SpecFilter == InitFilter /\ [][NextFilter]_vars

(***************************************************************************)
(* SpecLoad: one run saves the history and the metadata it holds, the      *)
(* writer thread writes with no I/O error, and the start-up of the next    *)
(* run reads the real path as the run left it.  The initial state draws    *)
(* the history (items), its pin count and the order in which its HashMap   *)
(* yields its entries (both kept in last), and the real path: absent, or   *)
(* holding what a release before the version header wrote for the history. *)
(***************************************************************************)
LoadItems ==
    {TextItem(<<1>>), TextItem(<<1, 2>>),
     MkItem([m \in {"text/plain", "text/html"} |-> IF m = "text/plain" THEN <<7>> ELSE <<>>])}

\* the keyed history of a sequence of items
Keyed(its) == PushBackAll(OrderedHashMap_new, its)

InitLoad ==
    /\ items \in Histories(LoadItems, item_limit)
    /\ request_tasks = <<>>
    /\ incr_paste_tasks = <<>>
    /\ windows = [i \in 1..INITIAL_WINDOWS |-> i]
    /\ counter = INITIAL_WINDOWS
    /\ paste_item_id = NoneOpt
    /\ prev_item_metadata = NoneOpt
    /\ merge_consecutive_similar_items = FALSE
    /\ status = "running"
    /\ peer = <<>>
    /\ late = {}
    /\ last \in {[op |-> "new", metadata |-> [pinned_count |-> n], order |-> o]
                 : n \in 0..Len(items), o \in Orders(DOMAIN Keyed(items).map)}
    /\ PersistInit({NoneOpt, Some(serialize_items(items))})

\* Selection's save: the history and its metadata handed to save_selection_data
SaveHistory ==
    /\ last.op = "new"
    /\ Len(submitted) < MaxHistorySaves
    /\ PApply(save_selection_data(
                  PCur, encode_items_metadata(Keyed(items), last.metadata, last.order)))

\* the writer thread of the run
LoadWriterStep == last.op = "new" /\ WriterStep(NoErrorEnv)

\* the run ends and the next one starts by reading the real path
Load ==
    /\ last.op = "new"
    /\ last' = [op |-> "load_selection_data", metadata |-> last.metadata,
                order |-> last.order, file |-> file, loaded |-> load_selection_data(file)]
    /\ UNCHANGED <<items, request_tasks, incr_paste_tasks, windows, counter, paste_item_id,
                   prev_item_metadata, merge_consecutive_similar_items, status, peer, late>>

NextLoad ==
    \/ SaveHistory /\ UNCHANGED engine_vars
    \/ LoadWriterStep /\ UNCHANGED engine_vars
    \/ Load /\ UNCHANGED persist_vars

SpecLoad == InitLoad /\ [][NextLoad]_vars

(***************************************************************************)
(* SpecPurge: inbound transfers and the INCR serving of a pasted item      *)
(* side by side, so that both task maps hold tasks of different ages when  *)
(* an event is handled.  It starts where the user's paste of the one item  *)
(* of the history has returned.                                            *)
(***************************************************************************)
PurgeEnv ==
    [owners |-> {101},
     offers |-> {{"text/plain"}},
     targets |-> {"text/plain"},
     incr |-> {},
     values |-> {<<1>>},
     property_events |->
         {[window |-> 200, atom |-> "P", state |-> "Delete", value |-> <<>>]}
         \cup {[window |-> w, atom |-> "TRANSFER_SELECTION_DATA", state |-> "NewValue",
                value |-> <<>>] : w \in 1..MaxWindows},
     fails |-> {0},
     max_tasks |-> MaxTasks,
     requests |-> {[requestor |-> 200, selection |-> "CLIPBOARD", target |-> "text/plain",
                    property |-> "P"]}]

PurgeItem == TextItem(<<1, 2, 1, 2>>)

\* the engine after the user pasted PurgeItem: it owns the selection for that item
InitPurge ==
    /\ items = <<PurgeItem>>
    /\ request_tasks = <<>>
    /\ incr_paste_tasks = <<>>
    /\ windows = [i \in 1..INITIAL_WINDOWS |-> i]
    /\ counter = INITIAL_WINDOWS
    /\ paste_item_id = Some(PurgeItem.id)
    /\ prev_item_metadata = NoneOpt
    /\ merge_consecutive_similar_items = FALSE
    /\ status = "running"
    /\ peer = <<>>
    /\ late = {}
    /\ last = [Obs("paste") EXCEPT !.path = "return"]
    /\ PersistIdle

NextPurge ==
    \/ XfixesSelectionNotify(PurgeEnv) /\ UNCHANGED persist_vars
    \/ SelectionNotify(PurgeEnv) /\ UNCHANGED persist_vars
    \/ SelectionRequest(PurgeEnv) /\ UNCHANGED persist_vars
    \/ PropertyNotify(PurgeEnv) /\ UNCHANGED persist_vars
    \/ Tick /\ UNCHANGED persist_vars

SpecPurge == InitPurge /\ [][NextPurge]_vars

(***************************************************************************)
(* SpecMap: an OrderedHashMap on its own, held in items, under every       *)
(* sequence of its mutating operations over a few keys and values.  last   *)
(* keeps the returned value (ret) and the map split_off returned (other).  *)
(***************************************************************************)
MapKeys == 1..MaxKeys

MapValues == {"a", "b"}

InitMap ==
    /\ items = OrderedHashMap_new
    /\ request_tasks = <<>>
    /\ incr_paste_tasks = <<>>
    /\ windows = [i \in 1..INITIAL_WINDOWS |-> i]
    /\ counter = INITIAL_WINDOWS
    /\ paste_item_id = NoneOpt
    /\ prev_item_metadata = NoneOpt
    /\ merge_consecutive_similar_items = FALSE
    /\ status = "running"
    /\ peer = <<>>
    /\ late = {}
    /\ last = [op |-> "new", ret |-> NoneOpt, other |-> OrderedHashMap_new]
    /\ PersistIdle

\* one call: the map becomes h, the call returned ret (and other, for split_off)
MapCall(op, h, ret, other, panic) ==
    /\ status = "running"
    /\ items' = h
    /\ last' = [op |-> op, ret |-> ret, other |-> other]
    /\ status' = IF panic THEN "panic" ELSE "running"
    /\ UNCHANGED <<request_tasks, incr_paste_tasks, windows, counter, paste_item_id,
                   prev_item_metadata, merge_consecutive_similar_items, peer, late>>

\* map.insert's and map.remove's returned value
Held(h, key) == IF key \in DOMAIN h.map THEN Some(h.map[key]) ELSE NoneOpt

NextMap ==
    \/ \E key \in MapKeys, value \in MapValues :
          MapCall("push_front", push_front(items, key, value), Held(items, key),
                  OrderedHashMap_new, FALSE) /\ UNCHANGED persist_vars
    \/ \E key \in MapKeys, value \in MapValues :
          MapCall("push_back", push_back(items, key, value), Held(items, key),
                  OrderedHashMap_new, FALSE) /\ UNCHANGED persist_vars
    \/ \E index \in 0..Len(items.keys), key \in MapKeys, value \in MapValues :
          LET r == insert(items, index, key, value)
          IN MapCall("insert", r.h, IF r.panic THEN NoneOpt ELSE Held(items, key),
                     OrderedHashMap_new, r.panic) /\ UNCHANGED persist_vars
    \/ \E key \in MapKeys :
          MapCall("remove", remove(items, key), Held(items, key), OrderedHashMap_new, FALSE)
          /\ UNCHANGED persist_vars
    \/ MapCall("pop_front", pop_front(items),
               IF items.keys = <<>> THEN NoneOpt ELSE Held(items, Head(items.keys)),
               OrderedHashMap_new, FALSE) /\ UNCHANGED persist_vars
    \/ MapCall("pop_back", pop_back(items),
               IF items.keys = <<>> THEN NoneOpt
               ELSE Held(items, items.keys[Len(items.keys)]),
               OrderedHashMap_new, FALSE) /\ UNCHANGED persist_vars
    \/ \E at \in 0..Len(items.keys) :
          MapCall("split_off", split_off(items, at)[1], NoneOpt, split_off(items, at)[2],
                  FALSE) /\ UNCHANGED persist_vars
    \/ MapCall("clear", clear(items), NoneOpt, OrderedHashMap_new, FALSE)
       /\ UNCHANGED persist_vars

SpecMap == InitMap /\ [][NextMap]_vars

(***************************************************************************)
(* SpecProtocol: one transfer at a time of an owner that offers two MIMEs  *)
(* and answers each conversion with the value or with an INCR transfer;    *)
(* replies may name either MIME, again and out of turn.  No time passes:    *)
(* the sweep of overdue tasks is the subject of SpecPurge.                 *)
(***************************************************************************)
ProtocolEnv ==
    [owners |-> {101},
     offers |-> {{"text/plain", "image/png"}},
     targets |-> {"text/plain", "image/png"},
     incr |-> {1},
     values |-> {<<1>>},
     property_events |->
         {[window |-> w, atom |-> "TRANSFER_SELECTION_DATA", state |-> "NewValue",
           value |-> v] : w \in 1..MaxWindows, v \in {<<>>, <<1, 1>>}},
     fails |-> {0},
     max_tasks |-> 1]

NextProtocol ==
    \/ XfixesSelectionNotify(ProtocolEnv) /\ UNCHANGED persist_vars
    \/ SelectionNotify(ProtocolEnv) /\ UNCHANGED persist_vars
    \/ PropertyNotify(ProtocolEnv) /\ UNCHANGED persist_vars

SpecProtocol == InitPool /\ [][NextProtocol]_vars

(***************************************************************************)
(* SpecMerge: captures of plain text in merge mode, with the user removing *)
(* items of the history between them.                                      *)
(***************************************************************************)
MergeEnv ==
    [owners |-> {101},
     offers |-> {{"text/plain"}},
     targets |-> {"text/plain"},
     incr |-> {},
     values |-> {<<1>>, <<1, 2>>},
     property_events |-> {},
     fails |-> {0},
     max_tasks |-> 1]

InitMerge ==
    /\ EngineInit(Histories({TextItem(<<1, 2>>), TextItem(<<2, 1>>)}, item_limit), {TRUE})
    /\ PersistIdle

NextMerge ==
    \/ XfixesSelectionNotify(MergeEnv) /\ UNCHANGED persist_vars
    \/ SelectionNotify(MergeEnv) /\ UNCHANGED persist_vars
    \/ RemoveItem
    \/ Tick /\ UNCHANGED persist_vars

SpecMerge == InitMerge /\ [][NextMerge]_vars

(***************************************************************************)
(* SpecLate: inbound transfers whose owners may answer after the transfer  *)
(* was purged.  late holds the conversions requested by tasks that were    *)
(* removed before their reply arrived; the owner asked still answers them. *)
(* Two owners offer text/plain, and the bytes of a reply tell its sender.  *)
(* No call fails.                                                          *)
(***************************************************************************)
LateOwners == {101, 102}

\* the conversions a task waits for: TARGETS, then the name it requested (an offer of
\* SpecLate holds one name, so the name left in mimes is the one requested)
Outstanding(task) ==
    IF task.state = "TargetsRequest" THEN {"TARGETS"} ELSE task.mimes

\* the SelectionNotify by which owner answers the conversion of target for requestor,
\* with what get_property reads from the property the owner filled
ReplyOf(requestor, target, owner) ==
    [requestor |-> requestor, target |-> target,
     property |-> IF target = "TARGETS"
                  THEN [type |-> "ATOM", value |-> <<1>>, value32 |-> Some({"text/plain"})]
                  ELSE [type |-> "UTF8_STRING", value |-> <<owner - 100>>,
                        value32 |-> NoneOpt]]

\* the conversions of the tasks of before that after no longer holds, the tasks of
\* answered excepted: their owners have not replied yet
Unanswered(before, after, answered) ==
    UNION {{[requestor |-> w, target |-> t, owner |-> before.request_tasks[w].owner]
            : t \in Outstanding(before.request_tasks[w])}
           : w \in (DOMAIN before.request_tasks \ DOMAIN after.request_tasks) \ answered}

\* the state a call leaves, with the replies still to come brought up to date
LateApply(s, answered, delivered) ==
    LET late2 == (late \ delivered) \cup Unanswered(Cur, s, answered)
    IN /\ Cardinality(late2) <= MaxLate
       /\ Apply([s EXCEPT !.late = late2])

\* an owner takes the selection: Event::XfixesSelectionNotify
Capture ==
    /\ status = "running"
    /\ Cardinality(DOMAIN request_tasks) < MaxTasks
    /\ windows # <<>> \/ counter < MaxWindows
    /\ \E owner \in LateOwners :
          \E s \in end_of_handle_event(on_xfixes_selection_notify(Cur, owner, 0)) :
              LateApply(s, {}, {})

\* the owner of a transfer answers the conversion its task waits for
Reply ==
    /\ status = "running"
    /\ \E w \in DOMAIN request_tasks :
          \E t \in Outstanding(request_tasks[w]) :
              \E s \in end_of_handle_event(
                           on_selection_notify(
                               Cur, ReplyOf(w, t, request_tasks[w].owner), 0)) :
                  LateApply(s, {w}, {})

\* the owner of a purged transfer answers a conversion that transfer requested
LateReply ==
    /\ status = "running"
    /\ \E l \in late :
          \E s \in end_of_handle_event(
                       on_selection_notify(
                           Cur, ReplyOf(l.requestor, l.target, l.owner), 0)) :
              LateApply(s, {}, {l})

NextLate ==
    \/ Capture /\ UNCHANGED persist_vars
    \/ Reply /\ UNCHANGED persist_vars
    \/ LateReply /\ UNCHANGED persist_vars
    \/ Tick /\ UNCHANGED persist_vars

SpecLate == InitPool /\ [][NextLate]_vars

(***************************************************************************)
(* Claims                                                                  *)
(***************************************************************************)
Range(f) == {f[x] : x \in DOMAIN f}

Occurrences(its, id) == Cardinality({i \in 1..Len(its) : its[i].id = id})

Finalized == last.op \in {"SelectionNotify", "PropertyNotify"} /\ last.fin # NoneOpt

\* C1: after every finalize of a capture the history holds at most item_limit items,
\* whether the capture inserted a new item or re-surfaced an existing one.
C1_HistoryBounded == Finalized => Len(items) <= item_limit

NoDuplicates(q) == \A i, j \in 1..Len(q) : i # j => q[i] # q[j]

\* C7: no transfer window serves two inbound transfers at once: no window that keys a
\* request task is in the free queue, no window is twice in the free queue, and the
\* window get() hands out next (the front of the queue, or a newly created one) is
\* held by no task.
C7_NoSharedWindow ==
    /\ \A w \in DOMAIN request_tasks : w \notin Range(windows)
    /\ NoDuplicates(windows)
    /\ pool_get(Cur).window \notin DOMAIN request_tasks

\* two transfers are in flight on windows that an earlier, finalized transfer used
C7_Witness ==
    /\ Cardinality(DOMAIN request_tasks) = 2
    /\ counter = INITIAL_WINDOWS
    /\ prev_item_metadata # NoneOpt
    /\ last.op = "XfixesSelectionNotify"

\* C8: every window checked out by get() is released again whichever way its transfer
\* ends: while the engine runs, a window that no request task refers to is in the free
\* queue.
C8_NoWindowLeak ==
    status = "running" =>
        \A w \in 1..counter : w \in DOMAIN request_tasks \/ w \in Range(windows)

\* C9: no sequence of events delivered by peers makes handle_event panic.
C9_NoPanic == status # "panic"

\* C10: handling a TARGETS reply that names x-kde-passwordManagerHint, filter_mimes gives
\* the empty set for every set of other names offered with it and every order of visiting
\* them, no conversion request is issued, the history is left as it was and the transfer
\* stays in TargetsRequest with nothing to ask for (so it can only end by purge)
C10_PasswordDiscardsTargets ==
    [][(last'.op = "SelectionNotify" /\ last'.password) =>
          /\ \A offered \in SUBSET OfferedNames :
                Sentinel \in offered =>
                    \A order \in Orders(offered) : filter_mimes(order) = {}
          /\ last'.conv = <<>>
          /\ last'.fin = NoneOpt
          /\ items' = items
          /\ \A w \in DOMAIN request_tasks' :
                /\ request_tasks'[w].state = "TargetsRequest"
                /\ request_tasks'[w].mimes = {}
                /\ request_tasks'[w].data = EmptyMap]_vars

C10_Witness ==
    /\ last.op = "SelectionNotify"
    /\ last.password
    /\ DOMAIN request_tasks # {}
    /\ status = "running"

\* C3: every SelectionRequest handed to handle_event is answered by exactly one
\* SelectionNotify before handle_event returns, also when an X11 request issued while
\* serving it (intern_atom, a property write) fails
C3_ExactlyOneReply == last.op = "SelectionRequest" => Len(last.replies) = 1

RECURSIVE Concat(_)
Concat(chunks) == IF chunks = <<>> THEN <<>> ELSE chunks[1].value \o Concat(Tail(chunks))

\* an outbound INCR transfer announced by the last SelectionRequest for key and then
\* driven by property deletions only: the item it serves is still in the history
Serving(key) ==
    /\ key \in DOMAIN incr_paste_tasks
    /\ key \in DOMAIN peer
    /\ peer[key] # <<>>
    /\ peer[key][1].type = "INCR"
    /\ FindItem(items, incr_paste_tasks[key].item_id) # NoneOpt

Payload(key) ==
    FindItem(items, incr_paste_tasks[key].item_id)[1].data[incr_paste_tasks[key].data_atom_name]

\* the chunks written so far are non-empty, at most INCR_CHUNK_SIZE long, and their
\* concatenation is the payload up to the task's offset
ChunksSoFar ==
    \A key \in DOMAIN incr_paste_tasks :
        (status = "running" /\ Serving(key)) =>
            /\ peer[key][1].value = <<Len(Payload(key))>>
            /\ Len(Payload(key)) > INCR_CHUNK_SIZE
            /\ \A i \in 2..Len(peer[key]) :
                  /\ peer[key][i].type = incr_paste_tasks[key].target
                  /\ peer[key][i].value # <<>>
                  /\ Len(peer[key][i].value) <= INCR_CHUNK_SIZE
            /\ Concat(Tail(peer[key])) = SubSeq(Payload(key), 1, incr_paste_tasks[key].offset)

\* the task is removed by the step that writes the one empty chunk, after the whole
\* payload; a task that is not overdue is removed in no other way
EndOfTransfer ==
    \A key \in DOMAIN incr_paste_tasks :
        (/\ Serving(key)
         /\ NotOverdue(incr_paste_tasks[key])
         /\ status' = "running"
         /\ key \notin DOMAIN incr_paste_tasks') =>
            /\ last'.op = "PropertyNotifyPaste"
            /\ Concat(Tail(peer[key])) = Payload(key)
            /\ peer'[key] = Append(peer[key], [type |-> incr_paste_tasks[key].target,
                                               value |-> <<>>])

\* once the task is gone, property notifications write nothing more
NothingAfterEnd ==
    last'.op \in {"PropertyNotify", "PropertyNotifyPaste"} =>
        \A key \in DOMAIN peer \ DOMAIN incr_paste_tasks :
            key \in DOMAIN peer' /\ peer'[key] = peer[key]

\* C4: a payload longer than INCR_CHUNK_SIZE served through a SelectionRequest and the
\* peer's property deletions, while the item stays in the history and the task is not
\* purged, is written in non-empty chunks of at most INCR_CHUNK_SIZE bytes whose
\* concatenation is the payload, followed by exactly one empty chunk, at which the
\* IncrPasteTask is removed
C4_IncrChunks == []ChunksSoFar /\ [][EndOfTransfer /\ NothingAfterEnd]_vars

C4_Witness ==
    /\ last.op = "PropertyNotifyPaste"
    /\ status = "running"
    /\ <<200, "P">> \in DOMAIN peer
    /\ <<200, "P">> \notin DOMAIN incr_paste_tasks
    /\ Len(peer[<<200, "P">>]) = 4
    /\ peer[<<200, "P">>][1] = [type |-> "INCR", value |-> <<4>>]
    /\ Concat(Tail(peer[<<200, "P">>])) = <<2, 1, 2, 1>>
    /\ peer[<<200, "P">>][4].value = <<>>

\* the k-th save is the latest one, the writer has nothing left to do and the real path
\* holds the version header followed by that save's payload
Settled(k) ==
    /\ Len(submitted) = k
    /\ channel = <<>>
    /\ writer.pc = "recv"
    /\ file = Some(FileContent(submitted[k].serialized_data))

\* C5: when save(B) is submitted while the write of the save before it has not
\* completed, and no I/O error occurs, a fairly scheduled writer thread brings the real
\* path to exactly B's content (header and payload) unless a later save is submitted,
\* and the file keeps that content until a later save is submitted
C5_LastSaveWins ==
    /\ \A k \in 2..MaxSaves :
          (Len(submitted) = k /\ submitted[k - 1].outcome = "pending")
              ~> (Settled(k) \/ Len(submitted) > k)
    /\ [][\A k \in 2..MaxSaves : (Settled(k) /\ Len(submitted') = k) => Settled(k)']_vars

C5_Witness ==
    /\ Settled(2)
    /\ submitted[1].outcome = "cancelled"
    /\ submitted[2].outcome = "written"
    /\ submitted[1].serialized_data # submitted[2].serialized_data

\* C6: the real path always holds what it held at start-up or the complete header and
\* payload of one submitted save whose write_to_disk ran to its rename; what a cancelled
\* or failed write left behind is in the .tmp sibling only
C6_RealPathComplete ==
    \/ file \in {NoneOpt, PreExisting}
    \/ \E k \in 1..Len(submitted) :
          /\ submitted[k].outcome = "written"
          /\ file = Some(FileContent(submitted[k].serialized_data))

C6_Witness ==
    /\ Len(submitted) >= 2
    /\ file = Some(FileContent(submitted[1].serialized_data))
    /\ submitted[2].outcome \in {"cancelled", "failed"}
    /\ tmp_file # NoneOpt
    /\ Len(tmp_file[1]) > Len(to_le_bytes(BINARY_VERSION))
    /\ Len(tmp_file[1]) < Len(FileContent(submitted[2].serialized_data))
    /\ tmp_file[1] = SubSeq(FileContent(submitted[2].serialized_data), 1, Len(tmp_file[1]))
    /\ submitted[1].serialized_data # submitted[2].serialized_data

\* what the filter is to keep of the offered names: every name that is neither plaintext
\* nor image, one plaintext name of the highest plaintext_mime_score if a plaintext name
\* is offered, one image name of the highest image_mime_score if an image name is offered
KeepsBestOfEach(offered, filtered) ==
    LET plains == {m \in offered : is_plaintext_mime(m)}
        images == {m \in offered \ plains : is_image_mime(m)}
        others == offered \ (plains \cup images)
    IN /\ filtered \subseteq offered
       /\ filtered \cap others = others
       /\ IF plains = {}
          THEN filtered \cap plains = {}
          ELSE \E best \in plains :
                  /\ filtered \cap plains = {best}
                  /\ \A m \in plains : plaintext_mime_score(m) <= plaintext_mime_score(best)
       /\ IF images = {}
          THEN filtered \cap images = {}
          ELSE \E best \in images :
                  /\ filtered \cap images = {best}
                  /\ \A m \in images : image_mime_score(m) <= image_mime_score(best)

\* C11: for every map of offered names without the password sentinel, in every iteration
\* order, filter_mimes returns the plaintext name of the highest plaintext score (if one
\* is offered), the image name of the highest image score (if one is offered) and all
\* other names
C11_FilterKeepsBest ==
    (last.op = "filter_mimes" /\ Sentinel \notin Range(last.mimes))
        => KeepsBestOfEach(Range(last.mimes), last.filtered[1])

C11_Witness ==
    /\ last.op = "filter_mimes"
    /\ last.mimes = <<"UTF8_STRING", "image/jpeg", "text/plain", "image/png">>
    /\ last.filtered = Some({"UTF8_STRING", "image/png"})

\* a occurs in b as a run of consecutive bytes
IsSubstring(a, b) == \E i \in 1..(Len(b) + 1) : \E j \in (i - 1)..Len(b) : SubSeq(b, i, j) = a

\* the capture finalized by this step meets the conditions of the merge heuristic: merge
\* mode, one plaintext MIME, the previous capture finalized less than MERGE_WINDOW ago
\* for the same owner and was not a re-surfaced duplicate, the front item holds that MIME
\* only, and one text is a substring of the other
MergeCase ==
    /\ Finalized'
    /\ merge_consecutive_similar_items
    /\ prev_item_metadata # NoneOpt
    /\ prev_item_metadata[1].owner = prev_item_metadata'[1].owner
    /\ prev_item_metadata[1].age < MERGE_WINDOW
    /\ ~prev_item_metadata[1].is_previously_seen
    /\ items # <<>>
    /\ \E mime \in DOMAIN last'.fin[1].data :
          /\ DOMAIN last'.fin[1].data = {mime}
          /\ is_plaintext_mime(mime)
          /\ DOMAIN items[1].data = {mime}
          /\ \/ IsSubstring(items[1].data[mime], last'.fin[1].data[mime])
             \/ IsSubstring(last'.fin[1].data[mime], items[1].data[mime])

\* C12: in the merge case the front item leaves the history and heads the removed list,
\* the captured data is at the front under its content id, once, and the history is no
\* longer than before: the two captures occupy one entry
C12_MergeReplacesFront ==
    [][MergeCase =>
          /\ last'.fin[1].merge
          /\ last'.ret[1].removed # <<>>
          /\ last'.ret[1].removed[1] = items[1].id
          /\ items' # <<>>
          /\ items'[1] = [id |-> last'.fin[1].id, data |-> last'.fin[1].data]
          /\ Occurrences(items', last'.fin[1].id) = 1
          /\ items[1].id # last'.fin[1].id => Occurrences(items', items[1].id) = 0
          /\ Len(items') <= Len(items)]_vars

\* the text "12" captured right after "1" from the same owner replaced it
C12_Witness ==
    /\ Finalized
    /\ last.fin[1].merge
    /\ last.fin[1].data = [m \in {"text/plain"} |-> <<1, 2>>]
    /\ last.ret[1].removed = <<hash_selection_data([m \in {"text/plain"} |-> <<1>>])>>
    /\ last.ret[1].new_item = Some(last.fin[1].id)
    /\ Len(items) = 2

\* the load read the bytes that the completed write of a save of the history left
SavedAndLoaded ==
    /\ last.op = "load_selection_data"
    /\ \E k \in 1..Len(submitted) :
          /\ submitted[k].outcome = "written"
          /\ submitted[k].serialized_data
                 = encode_items_metadata(Keyed(items), last.metadata, last.order)
          /\ last.file = Some(FileContent(submitted[k].serialized_data))

\* C13: once the write of save(h, m) has completed, a load of that file returns Ok with a
\* history of the same ids in the same order, each item with the same MIME-to-bytes map
C13_SaveLoadRoundTrip ==
    SavedAndLoaded
        => /\ last.loaded # NoneOpt
           /\ last.loaded[1][1].keys = [i \in 1..Len(items) |-> items[i].id]
           /\ DOMAIN last.loaded[1][1].map = {items[i].id : i \in 1..Len(items)}
           /\ \A i \in 1..Len(items) :
                 /\ last.loaded[1][1].map[items[i].id].id = items[i].id
                 /\ last.loaded[1][1].map[items[i].id].data = items[i].data

\* two items, the second with two MIMEs, saved with the map yielding the second first
C13_Witness ==
    /\ SavedAndLoaded
    /\ Len(items) = 2
    /\ Cardinality(DOMAIN items[2].data) = 2
    /\ last.order[1] = items[2].id
    /\ last.metadata.pinned_count = 2
    /\ last.loaded # NoneOpt
    /\ last.loaded[1][2] = last.metadata

\* a load that read a file holding only the encoding of a plain sequence of items,
\* with no version header
LegacyLoaded(its) ==
    /\ last.op = "load_selection_data"
    /\ last.file = Some(serialize_items(its))

\* C14: a file holding only the legacy encoding of a sequence of items, of any length,
\* loads as Ok with the keyed history of these items in their order and default metadata
C14_LegacyLoads ==
    LegacyLoaded(items)
        => last.loaded = Some(<<Keyed(items), SelectionMetadata_default>>)

\* the legacy files of at least one item do load
C14_NonEmptyLegacyLoads ==
    /\ LegacyLoaded(items)
    /\ Len(items) = 2
    /\ last.loaded = Some(<<Keyed(items), SelectionMetadata_default>>)

\* C15: save_selection_data can be called in every state of the writer thread (below the
\* bound on saves), and the call only cancels the token before it and appends its request
\* to the channel: it leaves the writer thread and both files as they are, whatever the
\* number of requests already queued
C15_SaveNeverBlocks ==
    /\ [](Len(submitted) < MaxSaves => ENABLED <<Save(PersistEnv) /\ UNCHANGED engine_vars>>_vars)
    /\ [][Len(submitted') = Len(submitted) + 1
            => /\ writer' = writer
               /\ file' = file
               /\ tmp_file' = tmp_file
               /\ Len(channel') = Len(channel) + 1
               /\ SubSeq(channel', 1, Len(channel)) = channel
               /\ channel'[Len(channel')].serialized_data
                      = submitted'[Len(submitted')].serialized_data]_vars

\* two saves queued behind a write that is in the middle of its chunks
C15_Witness ==
    /\ writer.pc = "chunk"
    /\ writer.i > 0
    /\ Len(channel) = 2
    /\ Len(submitted) = 3

Old(task) == task.age >= OVERDUE_TIMEOUT

\* what purge_overdue_tasks makes (r) of the tasks and the pool of s
Swept(s, r) ==
    /\ \A w \in DOMAIN r.request_tasks : ~Old(r.request_tasks[w])
    /\ \A k \in DOMAIN r.incr_paste_tasks : ~Old(r.incr_paste_tasks[k])
    /\ \A w \in DOMAIN s.request_tasks :
          IF Old(s.request_tasks[w])
          THEN w \notin DOMAIN r.request_tasks /\ w \in Range(r.windows)
          ELSE w \in DOMAIN r.request_tasks /\ r.request_tasks[w] = s.request_tasks[w]
    /\ \A k \in DOMAIN s.incr_paste_tasks :
          IF Old(s.incr_paste_tasks[k])
          THEN k \notin DOMAIN r.incr_paste_tasks
          ELSE k \in DOMAIN r.incr_paste_tasks
               /\ r.incr_paste_tasks[k] = s.incr_paste_tasks[k]

\* C16: purge_overdue_tasks leaves no task of either map whose last update is
\* OVERDUE_TIMEOUT old or older, puts the window of every request task it removes into the
\* pool's free queue and leaves every younger task as it was; after an event that ended
\* with the sweep neither map holds such a task
C16_PurgeSweeps ==
    /\ [](\A r \in purge_overdue_tasks(Cur) : Swept(Cur, r))
    /\ [][last'.purged
            => /\ \A w \in DOMAIN request_tasks' : ~Old(request_tasks'[w])
               /\ \A k \in DOMAIN incr_paste_tasks' : ~Old(incr_paste_tasks'[k])]_vars

\* an old and a young request task and an old paste task, about to be swept
C16_Witness ==
    /\ \E w, v \in DOMAIN request_tasks : Old(request_tasks[w]) /\ ~Old(request_tasks[v])
    /\ \E k \in DOMAIN incr_paste_tasks : Old(incr_paste_tasks[k])

\* the step is the handling of a SelectionNotify or of a PropertyNotify whose window has
\* no task
IgnoredStep ==
    \/ \E requestor \in ExistingWindows \ DOMAIN request_tasks,
          target \in PurgeEnv.targets, property \in Properties(PurgeEnv) :
          \E s \in end_of_handle_event(
                       on_selection_notify(
                           Cur,
                           [requestor |-> requestor, target |-> target,
                            property |-> property],
                           0)) :
              Apply(s)
    \/ \E ev \in PurgeEnv.property_events :
          /\ ev.window \notin DOMAIN request_tasks
          /\ <<ev.window, ev.atom>> \notin DOMAIN incr_paste_tasks
          /\ \E s \in end_of_handle_event(on_property_notify(Cur, ev, 0)) : Apply(s)

\* C17 as stated: such an event leaves the history, every task and the pool's free queue
\* unchanged and returns no notification
C17_IgnoredEventTouchesNothing ==
    [][IgnoredStep
         => /\ items' = items
            /\ request_tasks' = request_tasks
            /\ incr_paste_tasks' = incr_paste_tasks
            /\ windows' = windows
            /\ last'.ret = NoneOpt]_vars

\* C17 (amended): such an event leaves the history unchanged and returns no notification;
\* the sweep that ends its handling removes the tasks that are OVERDUE_TIMEOUT old and
\* appends the windows of the removed request tasks to the free queue, and leaves every
\* younger task, and the queue when no request task is that old, unchanged
C17_IgnoredEventOnlySweeps ==
    [][IgnoredStep
         => /\ items' = items
            /\ last'.ret = NoneOpt
            /\ Swept(Cur, Cur')
            /\ SubSeq(windows', 1, Len(windows)) = windows
            /\ {windows'[i] : i \in (Len(windows) + 1)..Len(windows')}
                   = {w \in DOMAIN request_tasks : Old(request_tasks[w])}
            /\ Len(windows') = Len(windows)
                   + Cardinality({w \in DOMAIN request_tasks : Old(request_tasks[w])})]_vars

\* a window without a task while another window's task and a paste task are old: the
\* event for the first sweeps the other two
C17_Witness ==
    /\ ExistingWindows \ DOMAIN request_tasks # {}
    /\ \E w \in DOMAIN request_tasks : Old(request_tasks[w])
    /\ \E k \in DOMAIN incr_paste_tasks :
          Old(incr_paste_tasks[k]) /\ k[1] \notin DOMAIN request_tasks

\* the three properties of one OrderedHashMap
Consistent(h) ==
    /\ \A i, j \in 1..Len(h.keys) : i # j => h.keys[i] # h.keys[j]
    /\ Range(h.keys) = DOMAIN h.map
    /\ len(h) = Len(h.keys)

\* C18: after every sequence of push_front, push_back, insert, remove, pop_front,
\* pop_back, split_off and clear that returned, the map and the map that split_off
\* returned have no duplicate key in their key sequence, the keys of the sequence are
\* the keys of the map, and len() is the length of the key sequence
C18_KeysMatchMap ==
    status = "running" => Consistent(items) /\ Consistent(last.other)

\* a key pushed to the front of a full map that already held it
C18_Witness ==
    /\ status = "running"
    /\ last.op = "push_front"
    /\ last.ret # NoneOpt
    /\ len(items) = MaxKeys
    /\ items.map[items.keys[1]] # last.ret[1]

\* the step is the handling of the INCR chunk ev that brings the buffer of the transfer
\* of ev.window above MAX_INCR_SIZE
OverLimitStep(ev) ==
    /\ ev.window \in DOMAIN request_tasks
    /\ <<ev.window, ev.atom>> \notin DOMAIN incr_paste_tasks
    /\ ev.state = "NewValue"
    /\ request_tasks[ev.window].state = "PendingIncr"
    /\ Len(request_tasks[ev.window].buffer) + Len(ev.value) > MAX_INCR_SIZE
    /\ \E s \in end_of_handle_event(on_property_notify(Cur, ev, 0)) : Apply(s)

\* C19: the handling of an INCR chunk that would bring the buffer above MAX_INCR_SIZE
\* removes the request task, puts its window into the pool's free queue and leaves the
\* history as it is
C19_OverLimitAborts ==
    [][\A ev \in PoolEnv.property_events :
          OverLimitStep(ev)
              => /\ ev.window \notin DOMAIN request_tasks'
                 /\ ev.window \in Range(windows')
                 /\ items' = items]_vars

\* the step is the handling of the TARGETS reply to requestor that offers the names of
\* offer, of which filter_mimes keeps none
EmptyFilterStep(requestor, offer) ==
    /\ requestor \in DOMAIN request_tasks
    /\ request_tasks[requestor].state = "TargetsRequest"
    /\ filter_mimes_any_order(offer \ SpecialTargets) = {{}}
    /\ \E target \in TargetsEnv.targets :
          \E s \in end_of_handle_event(
                       on_selection_notify(
                           Cur,
                           [requestor |-> requestor, target |-> target,
                            property |-> [type |-> "ATOM",
                                          value |-> IF offer = {} THEN <<>> ELSE <<1>>,
                                          value32 |-> Some(offer)]],
                           0)) :
              Apply(s)

\* C20: the handling of a TARGETS reply whose filtered MIME set is empty removes the
\* request task of the transfer and puts its window into the pool's free queue
C20_EmptyFilterAbandons ==
    [][\A requestor \in ExistingWindows, offer \in TargetsEnv.offers :
          EmptyFilterStep(requestor, offer)
              => /\ requestor \notin DOMAIN request_tasks'
                 /\ requestor \in Range(windows')]_vars

\* C21: in every reachable state the INCR buffer of every request task holds at most
\* MAX_INCR_SIZE bytes
C21_BufferBounded ==
    \A w \in DOMAIN request_tasks : Len(request_tasks[w].buffer) <= MAX_INCR_SIZE

\* a buffer that a chunk was appended to and that the next chunk of that length would
\* bring above the ceiling
C21_Witness ==
    \E w \in DOMAIN request_tasks :
        /\ request_tasks[w].state = "PendingIncr"
        /\ request_tasks[w].buffer # <<>>
        /\ 2 * Len(request_tasks[w].buffer) > MAX_INCR_SIZE

\* the step is a call of handle_event that returned Ok
HandleEventReturned ==
    /\ last'.op \in {"XfixesSelectionNotify", "SelectionNotify", "PropertyNotify",
                     "PropertyNotifyPaste", "SelectionRequest"}
    /\ status' = "running"

\* C22: every call of handle_event runs purge_overdue_tasks before it returns, so that
\* no task that is OVERDUE_TIMEOUT old is left in either map when the call has returned
C22_EveryEventSweeps ==
    [][HandleEventReturned
         => /\ last'.purged
            /\ \A w \in DOMAIN request_tasks' : ~Old(request_tasks'[w])
            /\ \A k \in DOMAIN incr_paste_tasks' : ~Old(incr_paste_tasks'[k])]_vars

\* the state of the request task of window w, "removed" when there is none
StateOf(tasks, w) == IF w \in DOMAIN tasks THEN tasks[w].state ELSE "removed"

\* the moves of one request task
ProtocolMoves ==
    {<<"removed", "TargetsRequest">>, <<"TargetsRequest", "PendingSelection">>,
     <<"PendingSelection", "PendingIncr">>, <<"PendingIncr", "PendingSelection">>,
     <<"TargetsRequest", "removed">>, <<"PendingSelection", "removed">>,
     <<"PendingIncr", "removed">>}

\* the step is the handling of an INCR-typed reply to w for a MIME the task still waits for
IncrReplyStep(w) ==
    \E target \in request_tasks[w].mimes, property \in Properties(ProtocolEnv) :
        /\ property # NoProperty
        /\ property.type = "INCR"
        /\ \E s \in end_of_handle_event(
                        on_selection_notify(
                            Cur,
                            [requestor |-> w, target |-> target, property |-> property],
                            0)) :
               Apply(s)
        /\ request_tasks'[w].current_mime_name = target
        /\ request_tasks'[w].mimes = request_tasks[w].mimes \ {target}

\* C23: a request task only moves TargetsRequest -> PendingSelection ->
\* (PendingIncr -> PendingSelection)* -> removed; it enters PendingIncr only from
\* PendingSelection, by an INCR-typed reply for a MIME of its remaining set; and a
\* conversion for a data MIME is only requested for a task past TargetsRequest or in the
\* very handling of its TARGETS reply
C23_ProtocolOrder ==
    [][/\ \A w \in ExistingWindows :
             LET from == StateOf(request_tasks, w)
                 to == StateOf(request_tasks', w)
             IN /\ from = to \/ <<from, to>> \in ProtocolMoves
                /\ (from # "PendingIncr" /\ to = "PendingIncr")
                       => from = "PendingSelection" /\ IncrReplyStep(w)
       /\ \A i \in 1..Len(last'.conv) :
             last'.conv[i][2] # "TARGETS"
                 => /\ last'.conv[i][1] \in DOMAIN request_tasks
                    /\ request_tasks[last'.conv[i][1]].state = "TargetsRequest"
                           => /\ last'.op = "SelectionNotify"
                              /\ StateOf(request_tasks', last'.conv[i][1])
                                     = "PendingSelection"]_vars

\* a task back in PendingSelection with the MIME its INCR transfer brought, waiting for
\* its other MIME
C23_Witness ==
    \E w \in DOMAIN request_tasks :
        /\ request_tasks[w].state = "PendingSelection"
        /\ request_tasks[w].mimes # {}
        /\ \E m \in DOMAIN request_tasks[w].data : request_tasks[w].data[m] = <<1, 1>>

\* C24: a write whose cancel token has been set by a newer save never renames its temp
\* file over the real path
C24_CancelledNeverRenames ==
    [][\A k \in 1..Len(submitted) :
           (cancel_tokens[k] /\ submitted[k].outcome = "pending")
               => submitted'[k].outcome # "written"]_vars

\* the file a load read has the version 2 header and a payload the versioned decode accepts
VersionedDecodes(f) ==
    /\ f # NoneOpt
    /\ Len(f[1]) >= 4
    /\ SubSeq(f[1], 1, 4) = to_le_bytes(BINARY_VERSION)
    /\ decode_from_slice(Drop(f[1], 4)).ok

\* C25: a load of a file with the version 2 header and a decodable payload returns the
\* result of the versioned decode, whatever the version 1 decode would make of the file;
\* the result of the version 1 decode is returned only when the versioned decode failed
C25_LegacyOnlyAfterFailure ==
    last.op = "load_selection_data"
        => /\ VersionedDecodes(last.file)
                 => last.loaded = Some(decode_from_slice(Drop(last.file[1], 4)).value)
           /\ (/\ last.file # NoneOpt
               /\ last.loaded # NoneOpt
               /\ decode_version_1(last.file[1]).ok
               /\ last.loaded = Some(decode_version_1(last.file[1]).value)
               /\ Len(last.file[1]) >= 4)
                 => \/ ~VersionedDecodes(last.file)
                    \/ decode_from_slice(Drop(last.file[1], 4)).value
                           = decode_version_1(last.file[1]).value

\* a loaded file that both decoders accept, with different results
C25_Witness ==
    /\ last.op = "load_selection_data"
    /\ VersionedDecodes(last.file)
    /\ decode_version_1(last.file[1]).ok
    /\ decode_version_1(last.file[1]).value
           # decode_from_slice(Drop(last.file[1], 4)).value
    /\ last.loaded = Some(decode_from_slice(Drop(last.file[1], 4)).value)

\* a request that names a property and is for another selection, or comes with no paste
\* item designated, or with one that left the history, or for a target the item lacks
InvalidRequest(ev) ==
    /\ ev.property # None \/ ev.target # None
    /\ \/ ev.selection # selection_atom
       \/ paste_item_id = NoneOpt
       \/ FindItem(items, paste_item_id[1]) = NoneOpt
       \/ ev.target \notin {"TARGETS"} \cup DOMAIN FindItem(items, paste_item_id[1])[1].data

\* C26: the handling of an invalid SelectionRequest writes nothing into the requestor's
\* property and creates no IncrPasteTask, and when handle_event returns without error its
\* one reply carries property NONE
C26_InvalidRequestRefused ==
    [][\A ev \in ServeEnv.requests, fail \in ServeEnv.fails :
           (/\ last'.op = "SelectionRequest"
            /\ InvalidRequest(ev)
            /\ \E s \in end_of_handle_event(on_selection_request(Cur, ev, fail)) : Apply(s))
               => /\ status' = "running" => last'.replies = <<None>>
                  /\ status' # "running" => last'.replies = <<>>
                  /\ <<ev.requestor, IF ev.property = None THEN ev.target ELSE ev.property>>
                         \notin DOMAIN peer'
                  /\ \A k \in DOMAIN incr_paste_tasks' :
                         /\ k \in DOMAIN incr_paste_tasks
                         /\ incr_paste_tasks'[k] = incr_paste_tasks[k]]_vars

\* a request refused because the designated item has left the history
C26_Witness ==
    /\ last.op = "SelectionRequest"
    /\ status = "running"
    /\ last.replies = <<None>>
    /\ paste_item_id # NoneOpt
    /\ FindItem(items, paste_item_id[1]) = NoneOpt

\* the item of the outbound transfer of key, or its MIME entry, has left the history
ItemGone(key) ==
    /\ key \in DOMAIN incr_paste_tasks
    /\ LET task == incr_paste_tasks[key]
           found == FindItem(items, task.item_id)
       IN found = NoneOpt \/ task.data_atom_name \notin DOMAIN found[1].data

OwnershipChangeStep(owner) ==
    /\ last'.op = "XfixesSelectionNotify"
    /\ \E s \in end_of_handle_event(on_xfixes_selection_notify(Cur, owner, 0)) : Apply(s)

\* C28: an ownership change to our paste window takes no window from the pool, creates
\* no request task and requests no conversion; an ownership change to another owner takes
\* one window (the front of the queue, or a new one), requests TARGETS on it and creates
\* exactly one task, in state TargetsRequest, keyed by that window
C28_OwnEventIgnored ==
    [][/\ OwnershipChangeStep(paste_window)
           => /\ counter' = counter
              /\ Len(windows') >= Len(windows)
              /\ SubSeq(windows', 1, Len(windows)) = windows
              /\ DOMAIN request_tasks' \subseteq DOMAIN request_tasks
              /\ last'.conv = <<>>
       /\ \A owner \in PoolEnv.owners \ {paste_window} :
              OwnershipChangeStep(owner)
                  => LET w == IF windows # <<>> THEN Head(windows) ELSE counter + 1 IN
                     /\ counter' = IF windows # <<>> THEN counter ELSE counter + 1
                     /\ windows # <<>>
                            => /\ Len(windows') >= Len(windows) - 1
                               /\ SubSeq(windows', 1, Len(windows) - 1) = Tail(windows)
                     /\ \A i \in 1..Len(windows') : windows'[i] # w
                     /\ w \notin DOMAIN request_tasks
                     /\ DOMAIN request_tasks' \ DOMAIN request_tasks = {w}
                     /\ request_tasks'[w] = NewRequestTask(owner)
                     /\ request_tasks'[w].state = "TargetsRequest"
                     /\ last'.conv = <<<<w, "TARGETS">>>>]_vars

\* our own ownership change, ignored while a capture is under way
C28_Witness ==
    /\ last.op = "XfixesSelectionNotify"
    /\ status = "running"
    /\ last.conv = <<>>
    /\ request_tasks # <<>>

\* C29: a paste called while our own window holds the input focus returns Ok, sends
\* neither set_selection_owner nor synthetic input, and leaves paste_item_id and the rest
\* of the engine as they were
C29_SelfPasteNoOp ==
    [][\A item_id \in {items[i].id : i \in 1..Len(items)}, fail \in ServeEnv.paste_fails \ {1} :
           (/\ last'.op = "paste"
            /\ Apply(paste(Cur, item_id, paste_window, fail)))
               => /\ status' = "running"
                  /\ last'.sent = <<>>
                  /\ paste_item_id' = paste_item_id
                  /\ UNCHANGED <<items, request_tasks, incr_paste_tasks, windows, counter,
                                 prev_item_metadata, peer, late>>]_vars

\* a paste into ourselves after an item was designated
C29_Witness ==
    /\ last.op = "paste"
    /\ status = "running"
    /\ last.sent = <<>>
    /\ paste_item_id # NoneOpt

\* C30: whenever paste(item_id) has taken the selection for our window, paste_item_id
\* is item_id when paste returns, on every path, a failure of the input synthesis included
C30_OwnershipDesignatesItem ==
    [][\A item_id \in {items[i].id : i \in 1..Len(items)},
          focused_window \in ServeEnv.focused, fail \in ServeEnv.paste_fails :
           (/\ last'.op = "paste"
            /\ Apply(paste(Cur, item_id, focused_window, fail))
            /\ last'.sent # <<>>)
               => paste_item_id' = Some(item_id)]_vars

\* the step is the handling, without X11 failure, of a reply to w that carries an empty
\* value, not INCR-typed, for target
EmptyReplyStep(w, target) ==
    /\ last'.op = "SelectionNotify"
    /\ \E s \in end_of_handle_event(
                    on_selection_notify(
                        Cur,
                        [requestor |-> w, target |-> target,
                         property |-> [type |-> "UTF8_STRING", value |-> <<>>,
                                       value32 |-> NoneOpt]],
                        0)) :
           Apply(s)

\* C31: an empty payload of a non-INCR reply for a requested MIME is recorded under its
\* MIME key: the task holds it after the call, or the item the call finalized does
C31_EmptyPayloadRecorded ==
    [][\A w \in DOMAIN request_tasks :
           \A target \in request_tasks[w].mimes :
               (request_tasks[w].state = "PendingSelection" /\ EmptyReplyStep(w, target))
                   => \/ /\ w \in DOMAIN request_tasks'
                         /\ target \in DOMAIN request_tasks'[w].data
                         /\ request_tasks'[w].data[target] = <<>>
                      \/ /\ last'.fin # NoneOpt
                         /\ target \in DOMAIN last'.fin[1].data
                         /\ last'.fin[1].data[target] = <<>>]_vars

\* the step is the handling, without X11 failure, of the last awaited reply of the transfer
\* of w, which has collected no data and gets none from this reply
EmptyFinalizeStep(w) ==
    /\ last'.op = "SelectionNotify"
    /\ w \in DOMAIN request_tasks
    /\ request_tasks[w].state = "PendingSelection"
    /\ request_tasks[w].data = EmptyMap
    /\ \E target \in HistoryEnv.targets, property \in Properties(HistoryEnv) :
          /\ request_tasks[w].mimes \ {target} = {}
          /\ property.value = <<>> \/ target \notin request_tasks[w].mimes
          /\ property.type # "INCR" \/ target \notin request_tasks[w].mimes
          /\ \E s \in end_of_handle_event(
                          on_selection_notify(
                              Cur,
                              [requestor |-> w, target |-> target, property |-> property],
                              0)) :
                 Apply(s)

\* C32: every item a capture stores has at least one MIME entry; a transfer whose data
\* map is empty at finalize gives its window back to the pool, leaves the history as it
\* was and returns nothing to the caller
C32_EmptyTransferDropped ==
    [][/\ last'.fin # NoneOpt => DOMAIN last'.fin[1].data # {}
       /\ \A i \in 1..Len(items') :
              (\A j \in 1..Len(items) : items[j] # items'[i])
                  => DOMAIN items'[i].data # {}
       /\ \A w \in DOMAIN request_tasks :
              EmptyFinalizeStep(w)
                  => /\ status' = "running"
                     /\ w \notin DOMAIN request_tasks'
                     /\ windows' = Append(windows, w)
                     /\ items' = items
                     /\ last'.fin = NoneOpt
                     /\ last'.ret = NoneOpt]_vars

\* a transfer that ended without data: no item, nothing returned
C32_Witness ==
    /\ last.op = "SelectionNotify"
    /\ status = "running"
    /\ last.path = "return"
    /\ last.conv = <<>>
    /\ last.fin = NoneOpt
    /\ last.ret = NoneOpt
    /\ request_tasks = <<>>

\* C33: no call requests a conversion to TIMESTAMP, SAVE_TARGETS, MULTIPLE, DELETE,
\* INSERT_SELECTION or INSERT_PROPERTY, whatever the TARGETS reply lists, and TARGETS is
\* requested only by the handling of an ownership change, as the first step of a transfer
C33_NoSpecialConversion ==
    \A i \in 1..Len(last.conv) :
        /\ last.conv[i][2] \notin {"TIMESTAMP", "SAVE_TARGETS", "MULTIPLE", "DELETE",
                                   "INSERT_SELECTION", "INSERT_PROPERTY"}
        /\ last.conv[i][2] = "TARGETS"
               => /\ last.op = "XfixesSelectionNotify"
                  /\ i = 1
                  /\ request_tasks[last.conv[i][1]].state = "TargetsRequest"

\* the conversion requested after a TARGETS reply that listed every special atom next to
\* text/plain
C33_Witness ==
    /\ last.op = "SelectionNotify"
    /\ ~last.password
    /\ \E w \in DOMAIN request_tasks :
          /\ last.conv = <<<<w, "text/plain">>>>
          /\ request_tasks[w].state = "PendingSelection"
          /\ request_tasks[w].data = EmptyMap

\* C34: filter_mimes returns the same set for every order in which the map of the same
\* offered names is iterated
C34_FilterDeterministic ==
    last.op = "filter_mimes"
        => \A order \in Orders(Range(last.mimes)) : filter_mimes(order) = last.filtered[1]

\* the ids in a history
IdSet(its) == {its[i].id : i \in 1..Len(its)}

\* main.rs 404-414 applied to a presentation set: what handle_event returned, if
\* anything, removes the ids of removed and then adds the id of new_item
Presented(shown, ret) ==
    IF ret = NoneOpt THEN shown
    ELSE (shown \ Range(ret[1].removed))
         \cup (IF ret[1].new_item = NoneOpt THEN {} ELSE {ret[1].new_item[1]})

\* C35: a presentation set equal to the ids of the history before a call of handle_event
\* equals the ids of the history after it, once the caller has applied what the call
\* returned
C35_PresentationFollowsHistory ==
    [][last'.op \in {"XfixesSelectionNotify", "SelectionNotify", "PropertyNotify"}
           => Presented(IdSet(items), last'.ret) = IdSet(items')]_vars

\* a capture that evicted the tail of a full history
C35_Witness ==
    /\ Finalized
    /\ last.ret # NoneOpt
    /\ last.ret[1].new_item # NoneOpt
    /\ last.ret[1].removed # <<>>
    /\ ~last.fin[1].merge
    /\ Len(items) = item_limit

\* C36: insert(index, key, value) with index <= len() completes, whether or not the map
\* holds the key, leaves the key once in the key sequence, at index, and returns the value
\* the map held for it
C36_InsertCompletes ==
    [][\A index \in 0..len(items), key \in MapKeys, value \in MapValues :
           (/\ last'.op = "insert"
            /\ LET r == insert(items, index, key, value)
               IN MapCall("insert", r.h, IF r.panic THEN NoneOpt ELSE Held(items, key),
                          OrderedHashMap_new, r.panic))
               => /\ status' = "running"
                  /\ Cardinality({i \in 1..Len(items'.keys) : items'.keys[i] = key}) = 1
                  /\ items'.keys[index + 1] = key
                  /\ items'.map[key] = value
                  /\ last'.ret = Held(items, key)]_vars

\* C37: every protocol step processed for a task refreshes its last_update: a task that
\* a call of handle_event changed and kept has age 0 after the call
C37_ProgressRefreshes ==
    [][last'.op \in {"SelectionNotify", "PropertyNotify", "PropertyNotifyPaste"}
           => /\ \A w \in DOMAIN request_tasks \cap DOMAIN request_tasks' :
                     request_tasks'[w] # request_tasks[w] => request_tasks'[w].age = 0
              /\ \A k \in DOMAIN incr_paste_tasks \cap DOMAIN incr_paste_tasks' :
                     incr_paste_tasks'[k] # incr_paste_tasks[k]
                         => incr_paste_tasks'[k].age = 0]_vars

\* C38: the item the merge heuristic removes is the item stored by the capture that
\* prev_item_metadata records
C38_MergeRemovesPrecedingItem ==
    [][(/\ last'.op \in {"SelectionNotify", "PropertyNotify"}
        /\ last'.fin # NoneOpt
        /\ last'.fin[1].merge)
           => /\ prev_item_metadata # NoneOpt
              /\ items # <<>>
              /\ items[1].id = prev_item_metadata[1].stored]_vars
\* the write of the j-th submitted save renames its temp file over the real path
Renamed(j) ==
    /\ j <= Len(submitted)
    /\ submitted[j].outcome = "pending"
    /\ submitted'[j].outcome = "written"

\* C39: the content at the real path never regresses: in the step that renames the
\* content of a save into place no save submitted after it has been renamed into place
\* already, and that step is the rename of the request the writer thread took from the
\* channel, with every save still waiting in the channel submitted after it
C39_NoRegression ==
    [][\A j \in 1..MaxSaves :
           Renamed(j)
               => /\ \A k \in (j + 1)..Len(submitted) : submitted[k].outcome # "written"
                  /\ writer.pc = "rename" /\ writer.cancel_token = j
                  /\ \A q \in DOMAIN channel : channel[q].cancel_token > j
                  /\ file' = Some(FileContent(submitted[j].serialized_data))]_vars

\* two saves of different content renamed into place one after the other, the real path
\* holding the later one
C39_Witness ==
    /\ Len(submitted) >= 2
    /\ submitted[1].outcome = "written"
    /\ submitted[2].outcome = "written"
    /\ submitted[1].serialized_data # submitted[2].serialized_data
    /\ file = Some(FileContent(submitted[2].serialized_data))

\* C40: what a request task records comes from a reply to a conversion this task
\* requested: a reply that the owner of a purged transfer sends late to a window that
\* was released and handed to the transfer of another owner finalizes nothing and adds
\* nothing to the data of that transfer's task
C40_LateReplyNotAttributed ==
    [][\A l \in late :
           (/\ l \notin late'
            /\ l.requestor \in DOMAIN request_tasks
            /\ request_tasks[l.requestor].owner # l.owner)
               => /\ last'.fin = NoneOpt
                  /\ l.requestor \in DOMAIN request_tasks'
                         => request_tasks'[l.requestor].data
                                = request_tasks[l.requestor].data]_vars

====
